---- MODULE Spec2Model ----
(***************************************************************************)
(* A model of the netlist simulator: the lexer's keyword table, the        *)
(* parser's dispatch on the head token of an equation, the simulator's     *)
(* memory layout (MemoryMapper), its expression evaluator and its          *)
(* per-cycle protocol (Simulator::cycle).                                  *)
(*                                                                         *)
(* A value_t is a 64-bit unsigned word.  It is modelled as the set of the  *)
(* positions of its 1 bits, so that ~, &, |, ^, << and >> keep their full  *)
(* width and the high bits that ~ sets are not lost.                       *)
(***************************************************************************)
EXTENDS Integers, Sequences, FiniteSets, TLC

\* ------------------------------------------------------------------ bounds

\* Number of calls of cycle() the model follows.
MaxCycles == 3

\* ------------------------------------------------------- program constants

\* Width of value_t and of size_t, in bits.
ValueBits == 64

\* Widest number the model converts between a word and a TLA+ integer.
SmallBits == 16

\* ------------------------------------------------------------------- words

Bits == 0 .. (ValueBits - 1)

RECURSIVE Pow2(_)
Pow2(n) == IF n = 0 THEN 1 ELSE 2 * Pow2(n - 1)

\* The word holding the small number n.
Word(n) == {i \in 0 .. (SmallBits - 1) : (n \div Pow2(i)) % 2 = 1}

\* Whether the word w is a small number, and that number.
IsSmall(w) == \A i \in w : i < SmallBits

RECURSIVE SumPow2(_)
SumPow2(w) ==
  IF w = {} THEN 0
  ELSE LET i == CHOOSE j \in w : TRUE IN Pow2(i) + SumPow2(w \ {i})

Num(w) == SumPow2(w)

\* mask(n): the n low bits set.
Mask(n) == 0 .. (n - 1)

\* The low n bits of w: w & mask(n).
Low(w, n) == w \cap Mask(n)

\* C++ operators on value_t.
BitNot(w) == Bits \ w
BitAnd(a, b) == a \cap b
BitOr(a, b) == a \cup b
BitXor(a, b) == (a \ b) \cup (b \ a)
ShiftLeft(w, k) == {i + k : i \in {j \in w : j + k < ValueBits}}
ShiftRight(w, k) == {i - k : i \in {j \in w : j >= k}}

\* a + b on size_t: addition modulo 2^ValueBits, by ripple carry.
RECURSIVE AddFrom(_, _, _, _)
AddFrom(a, b, i, carry) ==
  IF i = ValueBits THEN {}
  ELSE LET s == (IF i \in a THEN 1 ELSE 0) + (IF i \in b THEN 1 ELSE 0) + carry
       IN  (IF s % 2 = 1 THEN {i} ELSE {}) \cup AddFrom(a, b, i + 1, s \div 2)

SizeAdd(a, b) == AddFrom(a, b, 0, 0)

\* ------------------------------------------------------------------- lexer

LowerLetters == <<"a", "b", "c", "d", "e", "f", "g", "h", "i", "j", "k", "l", "m",
                  "n", "o", "p", "q", "r", "s", "t", "u", "v", "w", "x", "y", "z">>
UpperLetters == <<"A", "B", "C", "D", "E", "F", "G", "H", "I", "J", "K", "L", "M",
                  "N", "O", "P", "Q", "R", "S", "T", "U", "V", "W", "X", "Y", "Z">>

\* std::toupper on one character.
ToUpperChar(c) ==
  IF \E i \in 1 .. Len(LowerLetters) : LowerLetters[i] = c
  THEN UpperLetters[CHOOSE i \in 1 .. Len(LowerLetters) : LowerLetters[i] = c]
  ELSE c

\* str_toupper: a spelling is the sequence of its characters.
str_toupper(s) == [i \in 1 .. Len(s) |-> ToUpperChar(s[i])]

\* The keyword table of the lexer, as the set of its (spelling, kind) pairs.
spelling2keyword ==
  { << <<"I", "N", "P", "U", "T">>, "KEY_INPUT" >>,
    << <<"O", "U", "T", "P", "U", "T">>, "KEY_OUTPUT" >>,
    << <<"V", "A", "R">>, "KEY_VAR" >>,
    << <<"I", "N">>, "KEY_IN" >>,
    << <<"N", "O", "T">>, "KEY_NOT" >>,
    << <<"A", "N", "D">>, "KEY_AND" >>,
    << <<"N", "A", "N", "D">>, "KEY_NAND" >>,
    << <<"O", "R">>, "KEY_OR" >>,
    << <<"X", "O", "R">>, "KEY_XOR" >>,
    << <<"M", "U", "X">>, "KEY_MUX" >>,
    << <<"R", "E", "G">>, "KEY_REG" >>,
    << <<"C", "O", "N", "C", "A", "T">>, "KEY_CONCAT" >>,
    << <<"S", "E", "L", "E", "C", "T">>, "KEY_SELECT" >>,
    << <<"S", "L", "I", "C", "E">>, "KEY_SLICE" >>,
    << <<"R", "O", "M">>, "KEY_ROM" >>,
    << <<"R", "A", "M">>, "KEY_RAM" >> }

KeywordContains(s) == \E e \in spelling2keyword : e[1] = s
KeywordAt(s) == (CHOOSE e \in spelling2keyword : e[1] = s)[2]

\* Lexer::tokenize_identifier on an identifier-shaped lexeme: the kind of the
\* token, or "THROW" when spelling2keyword.at() finds no entry and throws
\* std::out_of_range.
tokenize_identifier(lexeme) ==
  IF KeywordContains(str_toupper(lexeme))
  THEN IF KeywordContains(lexeme) THEN KeywordAt(lexeme) ELSE "THROW"
  ELSE "IDENTIFIER"

\* ------------------------------------------------------------------ parser

\* Largest bus size the parser accepts.
max_bus_size == 64

\* The character that ends the input buffer.
NUL == "NUL"

\* The characters that may follow a token in the buffer.
NextChars == {NUL, " ", "\n", ",", ":", "a"}

\* The spelling of an INTEGER or constant token is the sequence of its digits,
\* each digit given by its value.  std::from_chars reads the longest prefix of
\* digits that are valid in the base: PrefixLen is its length.
RECURSIVE PrefixLen(_, _)
PrefixLen(spelling, base) ==
  IF spelling = <<>> \/ Head(spelling) >= base THEN 0
  ELSE 1 + PrefixLen(Tail(spelling), base)

\* The number that the digits read in the base.
RECURSIVE DigitsValue(_, _)
DigitsValue(digits, base) ==
  IF digits = <<>> THEN 0
  ELSE DigitsValue(SubSeq(digits, 1, Len(digits) - 1), base) * base + digits[Len(digits)]

\* parse_int on the token spelled spelling, next_char being the character of
\* the buffer just after the token.  ptr is where from_chars stopped: inside
\* the spelling at the first digit the base does not have, else at next_char.
\* The spellings of the model are short enough for every integer type, so
\* errc::result_out_of_range does not arise.
parse_int(spelling, base, next_char) ==
  LET n == PrefixLen(spelling, base)
      at_ptr == IF n < Len(spelling) THEN "digit" ELSE next_char
  IN  IF n = 0 THEN [ok |-> FALSE]
      ELSE IF at_ptr # NUL THEN [ok |-> FALSE]
      ELSE [ok |-> TRUE, value |-> DigitsValue(SubSeq(spelling, 1, n), base)]

\* Parser::parse_bus_size on the INTEGER token spelled spelling.
parse_bus_size(spelling, next_char) ==
  LET bs == parse_int(spelling, 10, next_char) IN
    IF ~bs.ok THEN bs
    ELSE IF bs.value > max_bus_size THEN [ok |-> FALSE]
    ELSE bs

\* Parser::parse_binary_digits on the INTEGER token spelled spelling: the
\* Constant is built after consume(), when m_token is the token that follows,
\* whose spelling has next_size characters.
parse_binary_digits(spelling, next_char, next_size) ==
  LET val == parse_int(spelling, 2, next_char) IN
    IF ~val.ok THEN val
    ELSE [ok |-> TRUE, size |-> next_size, value |-> val.value]

\* An Argument is a declared variable or a constant with its bus size.
Var(n) == [k |-> "VARIABLE", name |-> n]
Const(size, n) == [k |-> "CONSTANT", size |-> size, value |-> Word(n)]

\* Argument::get_bus_size; width maps each declared variable to its bus size.
ArgBusSize(arg, width) ==
  IF arg.k = "CONSTANT" THEN arg.size ELSE width[arg.name]

\* Parser::parse_variable reports an undefined variable and exits.
ArgDeclared(arg, width) == arg.k = "CONSTANT" \/ arg.name \in DOMAIN width

ParseError == [ok |-> FALSE]
Parsed(e) == [ok |-> TRUE, expr |-> e]

\* The four cases KEY_AND, KEY_NAND, KEY_OR, KEY_XOR of Parser::parse_expression.
ParseBinOp(op, args, width) ==
  IF Len(args) # 2 \/ ~(\A i \in 1 .. 2 : ArgDeclared(args[i], width)) THEN ParseError
  ELSE IF ArgBusSize(args[1], width) # ArgBusSize(args[2], width) THEN ParseError
  ELSE Parsed([kind |-> "BINOP", op |-> op, lhs |-> args[1], rhs |-> args[2]])

\* Parser::parse_expression on one right-hand side: kind is the kind of its
\* head token (lexeme its spelling, <<>> when the right-hand side is a constant
\* literal), ints the integers and args the arguments that follow the head.
parse_expression(kind, lexeme, ints, args, width) ==
  IF ~(\A i \in 1 .. Len(args) : ArgDeclared(args[i], width)) THEN ParseError
  ELSE IF \E i \in 1 .. Len(ints) : ints[i] > max_bus_size THEN ParseError
  ELSE IF lexeme = <<>> THEN
    IF Len(args) = 1 /\ Len(ints) = 0 /\ args[1].k = "CONSTANT"
    THEN Parsed([kind |-> "ARG", arg |-> args[1]]) ELSE ParseError
  ELSE IF kind = "IDENTIFIER" THEN
    \* parse_variable; the tokens left over are no equation, and the next
    \* round of parse_equations rejects them.
    IF lexeme \in DOMAIN width /\ Len(args) = 0 /\ Len(ints) = 0
    THEN Parsed([kind |-> "ARG", arg |-> Var(lexeme)]) ELSE ParseError
  ELSE IF kind = "KEY_NOT" THEN
    IF Len(args) = 1 /\ Len(ints) = 0
    THEN Parsed([kind |-> "NOT", arg |-> args[1]]) ELSE ParseError
  ELSE IF kind = "KEY_AND" /\ Len(ints) = 0 THEN ParseBinOp("AND", args, width)
  ELSE IF kind = "KEY_NAND" /\ Len(ints) = 0 THEN ParseBinOp("NAND", args, width)
  ELSE IF kind = "KEY_OR" /\ Len(ints) = 0 THEN ParseBinOp("OR", args, width)
  ELSE IF kind = "KEY_XOR" /\ Len(ints) = 0 THEN ParseBinOp("XOR", args, width)
  ELSE IF kind = "KEY_MUX" THEN
    IF Len(args) # 3 \/ Len(ints) # 0 THEN ParseError
    ELSE IF ArgBusSize(args[1], width) # 1 THEN ParseError
    ELSE IF ArgBusSize(args[2], width) # ArgBusSize(args[3], width) THEN ParseError
    ELSE Parsed([kind |-> "MUX", choice |-> args[1], t |-> args[2], f |-> args[3]])
  ELSE IF kind = "KEY_REG" THEN
    IF Len(args) = 1 /\ Len(ints) = 0 /\ args[1].k = "VARIABLE"
    THEN Parsed([kind |-> "REG", v |-> args[1].name]) ELSE ParseError
  ELSE IF kind = "KEY_CONCAT" THEN
    IF Len(args) = 2 /\ Len(ints) = 0
    THEN Parsed([kind |-> "CONCAT", beg |-> args[1], last |-> args[2]]) ELSE ParseError
  ELSE IF kind = "KEY_SELECT" THEN
    IF Len(args) # 1 \/ Len(ints) # 1 THEN ParseError
    ELSE IF ArgBusSize(args[1], width) <= ints[1] THEN ParseError
    ELSE Parsed([kind |-> "SELECT", index |-> ints[1], arg |-> args[1]])
  ELSE IF kind = "KEY_SLICE" THEN
    IF Len(args) # 1 \/ Len(ints) # 2 THEN ParseError
    ELSE IF ints[1] >= ints[2] THEN ParseError
    ELSE IF ArgBusSize(args[1], width) <= ints[2] THEN ParseError
    ELSE Parsed([kind |-> "SLICE", begin |-> ints[1], end |-> ints[2], arg |-> args[1]])
  ELSE IF kind = "KEY_ROM" THEN
    IF Len(args) # 1 \/ Len(ints) # 2 THEN ParseError
    ELSE IF ArgBusSize(args[1], width) # ints[1] THEN ParseError
    ELSE Parsed([kind |-> "ROM", address_size |-> ints[1], word_size |-> ints[2],
                 read_address |-> args[1]])
  ELSE IF kind = "KEY_RAM" THEN
    IF Len(args) # 4 \/ Len(ints) # 2 THEN ParseError
    ELSE IF ArgBusSize(args[1], width) # ints[1] THEN ParseError
    ELSE IF ArgBusSize(args[2], width) # 1 THEN ParseError
    ELSE IF ArgBusSize(args[3], width) # ints[1] THEN ParseError
    ELSE IF ArgBusSize(args[4], width) # ints[2] THEN ParseError
    ELSE Parsed([kind |-> "RAM", address_size |-> ints[1], word_size |-> ints[2],
                 read_address |-> args[1], write_enable |-> args[2],
                 write_address |-> args[3], data |-> args[4]])
  ELSE ParseError

\* Expression::get_bus_size: the bus size of the value of an expression.
ExprBusSize(e, width) ==
  CASE e.kind = "ARG" -> ArgBusSize(e.arg, width)
    [] e.kind = "REG" -> width[e.v]
    [] e.kind = "NOT" -> ArgBusSize(e.arg, width)
    [] e.kind = "BINOP" -> ArgBusSize(e.lhs, width)
    [] e.kind = "MUX" -> ArgBusSize(e.t, width)
    [] e.kind = "CONCAT" -> ArgBusSize(e.beg, width) + ArgBusSize(e.last, width)
    [] e.kind = "SELECT" -> 1
    [] e.kind = "SLICE" -> e.end - e.begin + 1
    [] e.kind = "ROM" -> e.word_size
    [] e.kind = "RAM" -> e.word_size

\* A source equation: target = head ints args, head an identifier-shaped lexeme.
Equation(target, lexeme, ints, args) ==
  [target |-> target, lexeme |-> lexeme, ints |-> ints, args |-> args]

\* Parser::parse_equations from equation i of the source on; eqs holds the
\* equations kept so far (try_emplace keeps the first one of a variable).
RECURSIVE parse_equations(_, _, _, _)
parse_equations(src, width, i, eqs) ==
  IF i > Len(src) THEN [ok |-> TRUE, eqs |-> eqs]
  ELSE LET q == src[i] IN
    IF q.target \notin DOMAIN width THEN [ok |-> FALSE, eqs |-> eqs]
    ELSE LET r == parse_expression(
                    IF q.lexeme = <<>> THEN "INTEGER" ELSE tokenize_identifier(q.lexeme),
                    q.lexeme, q.ints, q.args, width)
         IN IF ~r.ok THEN [ok |-> FALSE, eqs |-> eqs]
            ELSE parse_equations(src, width, i + 1,
                   IF q.target \in DOMAIN eqs THEN eqs ELSE eqs @@ (q.target :> r.expr))

\* A Program that leaves no declared variable without equation.
every_variable_defined(file, eqs) == {}

\* The loop of parse_program over the declared variables: those that are no
\* input and have no equation, each one reported with exit().
without_equation(file, eqs) ==
  {v \in DOMAIN file.vars : v \notin file.inputs /\ v \notin DOMAIN eqs}

\* The Program that Parser::parse_program builds from the sections of a source
\* file whose integer tokens have been read: inputs (names), vars (name :> bus
\* size) and eqs (source equations).  ok = FALSE when a report exits the process.
ProgramOf(file) ==
  IF ~(file.inputs \subseteq DOMAIN file.vars) THEN [ok |-> FALSE]
  ELSE IF \E v \in DOMAIN file.vars : file.vars[v] > max_bus_size THEN [ok |-> FALSE]
  ELSE LET r == parse_equations(file.eqs, file.vars, 1, <<>>) IN
    IF ~r.ok THEN [ok |-> FALSE]
    ELSE IF without_equation(file, r.eqs) # {} THEN [ok |-> FALSE]
    ELSE [ok |-> TRUE, width |-> file.vars, inputs |-> file.inputs, eqs |-> r.eqs]

\* The decimal spelling of a number below 100, the binary spelling on size
\* digits of a word.
Decimal(n) == IF n < 10 THEN <<n>> ELSE <<n \div 10, n % 10>>
Binary(size, w) == [i \in 1 .. size |-> IF (size - i) \in w THEN 1 ELSE 0]

\* The character after the j-th argument of equation i of a file: the
\* character after the last token of the text is file.tail, a blank or a line
\* end separates every other token from the next one.
CharAfterArg(file, i, j) ==
  IF i = Len(file.eqs) /\ j = Len(file.eqs[i].args) THEN file.tail ELSE " "

\* Whether parse_int reads every integer token of the text.  A bus size is
\* written in VAR for every variable that is not one bit wide (x:2) and is
\* followed by a separator; the integers of SELECT, SLICE, ROM and RAM are
\* followed by their argument; a constant is written 0b and its digits.
IntegersRead(file) ==
  /\ \A v \in DOMAIN file.vars :
       file.vars[v] # 1 => parse_int(Decimal(file.vars[v]), 10, " ").ok
  /\ \A i \in 1 .. Len(file.eqs) :
       /\ \A k \in 1 .. Len(file.eqs[i].ints) :
            parse_int(Decimal(file.eqs[i].ints[k]), 10, " ").ok
       /\ \A j \in 1 .. Len(file.eqs[i].args) :
            LET arg == file.eqs[i].args[j] IN
              arg.k = "CONSTANT" =>
                parse_int(Binary(arg.size, arg.value), 2, CharAfterArg(file, i, j)).ok

\* Parser::parse_program on the text of a source file.
parse_program(file) ==
  IF ~IntegersRead(file) THEN [ok |-> FALSE] ELSE ProgramOf(file)

\* --------------------------------------------------------------- scheduler

Range(s) == {s[i] : i \in 1 .. Len(s)}

ArgVars(args) == SelectSeq(args, LAMBDA a : a.k = "VARIABLE")
ArgNames(args) == [i \in 1 .. Len(ArgVars(args)) |-> ArgVars(args)[i].name]

\* Every variable an equation names, the argument of REG and the read
\* addresses included.
AllArguments(e) ==
  CASE e.kind = "ARG" -> ArgNames(<<e.arg>>)
    [] e.kind = "REG" -> <<e.v>>
    [] e.kind = "NOT" -> ArgNames(<<e.arg>>)
    [] e.kind = "BINOP" -> ArgNames(<<e.lhs, e.rhs>>)
    [] e.kind = "MUX" -> ArgNames(<<e.choice, e.t, e.f>>)
    [] e.kind = "CONCAT" -> ArgNames(<<e.beg, e.last>>)
    [] e.kind = "SELECT" -> ArgNames(<<e.arg>>)
    [] e.kind = "SLICE" -> ArgNames(<<e.arg>>)
    [] e.kind = "ROM" -> ArgNames(<<e.read_address>>)
    [] e.kind = "RAM" -> ArgNames(<<e.read_address, e.write_enable, e.write_address, e.data>>)

\* The variables an equation needs in the current cycle: every ordinary
\* argument, and the write side of a RAM; not the argument of REG, not the read
\* address of a ROM or RAM.
Dependencies(e) ==
  CASE e.kind = "ARG" -> ArgNames(<<e.arg>>)
    [] e.kind = "REG" -> <<>>
    [] e.kind = "NOT" -> ArgNames(<<e.arg>>)
    [] e.kind = "BINOP" -> ArgNames(<<e.lhs, e.rhs>>)
    [] e.kind = "MUX" -> ArgNames(<<e.choice, e.t, e.f>>)
    [] e.kind = "CONCAT" -> ArgNames(<<e.beg, e.last>>)
    [] e.kind = "SELECT" -> ArgNames(<<e.arg>>)
    [] e.kind = "SLICE" -> ArgNames(<<e.arg>>)
    [] e.kind = "ROM" -> <<>>
    [] e.kind = "RAM" -> ArgNames(<<e.write_enable, e.write_address, e.data>>)

\* The variables of the depth-first stack from v up to its top.
StackFrom(path, v) ==
  {path[i] : i \in {i \in 1 .. Len(path) : \E j \in 1 .. i : path[j] = v}}

\* Depth-first topological sort: st.out is the schedule so far, path the
\* depth-first stack; st.err is set when a variable is met that is on the
\* stack (a combinational cycle), and st.cycle then names the variables of
\* the cycle.
RECURSIVE ScheduleVisit(_, _, _, _), ScheduleVisitAll(_, _, _, _, _)
ScheduleVisit(eqs, v, path, st) ==
  IF st.err \/ v \notin DOMAIN eqs \/ v \in Range(st.out) THEN st
  ELSE IF v \in Range(path)
       THEN [st EXCEPT !.err = TRUE, !.cycle = StackFrom(path, v)]
  ELSE LET after == ScheduleVisitAll(eqs, Dependencies(eqs[v]), 1, Append(path, v), st)
       IN  IF after.err THEN after ELSE [after EXCEPT !.out = Append(@, v)]

ScheduleVisitAll(eqs, vs, i, path, st) ==
  IF i > Len(vs) THEN st
  ELSE ScheduleVisitAll(eqs, vs, i + 1, path, ScheduleVisit(eqs, vs[i], path, st))

\* Scheduler::schedule; order lists the assigned variables as the source does.
schedule(eqs, order) ==
  ScheduleVisitAll(eqs, order, 1, <<>>, [out |-> <<>>, err |-> FALSE, cycle |-> {}])

\* ------------------------------------------------------------ MemoryMapper

\* One visit of Simulator::MemoryMapper: the equation current_var = e.
MemoryMapperVisit(mm, current_var, e) ==
  CASE e.kind = "REG" ->
         IF e.v \in DOMAIN mm.reg_info THEN mm
         ELSE [mm EXCEPT !.reg_info = @ @@ (e.v :> mm.current_index),
                         !.current_index = @ + 1]
    [] e.kind = "RAM" ->
         [mm EXCEPT !.ram_info = @ @@ (current_var :>
                       [write_enable |-> e.write_enable,
                        write_addr |-> e.write_address,
                        data |-> e.data,
                        block_index |-> mm.current_index,
                        block_size |-> Pow2(e.address_size)]),
                    !.current_index = @ + Pow2(e.address_size)]
    [] e.kind = "ROM" ->
         [mm EXCEPT !.rom_info = @ @@ (current_var :>
                       [block_index |-> mm.current_index,
                        block_size |-> Pow2(e.address_size)]),
                    !.current_index = @ + Pow2(e.address_size)]
    [] OTHER -> mm

\* Simulator::MemoryMapper::MemoryMapper; order is the order in which the
\* equation map of the program is iterated.
RECURSIVE MemoryMapperFrom(_, _, _, _)
MemoryMapperFrom(eqs, order, i, mm) ==
  IF i > Len(order) THEN mm
  ELSE MemoryMapperFrom(eqs, order, i + 1, MemoryMapperVisit(mm, order[i], eqs[order[i]]))

MemoryMapper(eqs, order) ==
  MemoryMapperFrom(eqs, order, 1,
    [reg_info |-> <<>>, ram_info |-> <<>>, rom_info |-> <<>>, current_index |-> 0])

\* ----------------------------------------------------- ExpressionEvaluator

\* Whether the word off is an index of the vector memory.
InBounds(memory, off) == IsSmall(off) /\ Num(off) \in DOMAIN memory

\* memory[off]; a read outside the vector is undefined and yields garbage.
MemoryRead(memory, off, garbage) ==
  IF InBounds(memory, off) THEN memory[Num(off)] ELSE garbage

\* visit(Argument): visit_constant and visit_variable.
visit_arg(arg, env) == IF arg.k = "CONSTANT" THEN arg.value ELSE env[arg.name]

visit_reg_expr(e, memory, mm) == memory[mm.reg_info[e.v]]

visit_not_expr(e, env) == BitNot(visit_arg(e.arg, env))

visit_binop_expr(e, env) ==
  LET lhs_value == visit_arg(e.lhs, env)
      current_value == visit_arg(e.rhs, env)
  IN  CASE e.op = "OR" -> BitOr(lhs_value, current_value)
        [] e.op = "XOR" -> BitXor(lhs_value, current_value)
        [] e.op = "AND" -> BitAnd(lhs_value, current_value)
        [] e.op = "NAND" -> BitNot(BitAnd(lhs_value, current_value))
        [] OTHER -> current_value

visit_mux_expr(e, env) ==
  IF visit_arg(e.choice, env) # {} THEN visit_arg(e.t, env) ELSE visit_arg(e.f, env)

\* mem_addr of visit_rom_expr and visit_ram_expr.
RomAddress(current_var, e, env, mm) ==
  SizeAdd(Word(mm.rom_info[current_var].block_index), visit_arg(e.read_address, env))

RamAddress(current_var, e, env, mm) ==
  SizeAdd(Word(mm.ram_info[current_var].block_index), visit_arg(e.read_address, env))

visit_rom_expr(current_var, e, env, memory, mm, garbage) ==
  MemoryRead(memory, RomAddress(current_var, e, env, mm), garbage)

visit_ram_expr(current_var, e, env, memory, mm, garbage) ==
  MemoryRead(memory, RamAddress(current_var, e, env, mm), garbage)

visit_concat_expr(e, env, width) ==
  LET beg_value == visit_arg(e.beg, env)
      current_value == visit_arg(e.last, env)
  IN  BitOr(ShiftLeft(current_value, ExprBusSize(e, width)), beg_value)

visit_slice_expr(e, env) ==
  LET value_shifted == ShiftRight(visit_arg(e.arg, env), e.begin)
      mask == Mask(e.end - e.begin + 1)
  IN  BitAnd(value_shifted, mask)

visit_select_expr(e, env) == BitAnd(ShiftRight(visit_arg(e.arg, env), e.index), {0})

\* Simulator::ExpressionEvaluator::eval.
eval(var, e, env, memory, mm, width, garbage) ==
  CASE e.kind = "ARG" -> visit_arg(e.arg, env)
    [] e.kind = "REG" -> visit_reg_expr(e, memory, mm)
    [] e.kind = "NOT" -> visit_not_expr(e, env)
    [] e.kind = "BINOP" -> visit_binop_expr(e, env)
    [] e.kind = "MUX" -> visit_mux_expr(e, env)
    [] e.kind = "ROM" -> visit_rom_expr(var, e, env, memory, mm, garbage)
    [] e.kind = "RAM" -> visit_ram_expr(var, e, env, memory, mm, garbage)
    [] e.kind = "CONCAT" -> visit_concat_expr(e, env, width)
    [] e.kind = "SLICE" -> visit_slice_expr(e, env)
    [] e.kind = "SELECT" -> visit_select_expr(e, env)

\* Whether eval reads outside the vector memory.
EvalOutOfBounds(var, e, env, memory, mm) ==
  CASE e.kind = "ROM" -> ~InBounds(memory, RomAddress(var, e, env, mm))
    [] e.kind = "RAM" -> ~InBounds(memory, RamAddress(var, e, env, mm))
    [] OTHER -> FALSE

\* --------------------------------------------------------- Simulator::cycle

\* "Set all Input value": env.emplace inserts a pair only when env holds no
\* element with that key.
SetInputs(env, inputs, supplied) ==
  [v \in DOMAIN env \cup inputs |-> IF v \in DOMAIN env THEN env[v] ELSE supplied[v]]

\* The equations evaluated from the last entry of dep_list to the first.
RECURSIVE IterateBackwards(_, _, _, _, _, _, _)
IterateBackwards(prog, dep_list, i, st, memory, mm, garbage) ==
  IF i > Len(dep_list) THEN st
  ELSE LET var == dep_list[Len(dep_list) + 1 - i]
           e == prog.eqs[var]
       IN  IterateBackwards(prog, dep_list, i + 1,
             [env |-> [st.env EXCEPT ![var] =
                         eval(var, e, st.env, memory, mm, prog.width, garbage)],
              ub |-> st.ub \/ EvalOutOfBounds(var, e, st.env, memory, mm)],
             memory, mm, garbage)

\* "Iterate over equations", from entry i of dep_list on; st.env is the
\* environment and st.ub says whether a read left the vector.
RECURSIVE IterateEquations(_, _, _, _, _, _, _)
IterateEquations(prog, dep_list, i, st, memory, mm, garbage) ==
  IF i > Len(dep_list) THEN st
  ELSE LET var == dep_list[i]
           e == prog.eqs[var]
       IN  IterateEquations(prog, dep_list, i + 1,
             [env |-> [st.env EXCEPT ![var] =
                         eval(var, e, st.env, memory, mm, prog.width, garbage)],
              ub |-> st.ub \/ EvalOutOfBounds(var, e, st.env, memory, mm)],
             memory, mm, garbage)

\* "Save Registers to memory".
SaveRegisters(memory, env, mm) ==
  [a \in DOMAIN memory |->
     IF \E var \in DOMAIN mm.reg_info : mm.reg_info[var] = a
     THEN env[CHOOSE var \in DOMAIN mm.reg_info : mm.reg_info[var] = a]
     ELSE memory[a]]

\* Simulator::eval_arg.
eval_arg(arg, env) == IF arg.k = "CONSTANT" THEN arg.value ELSE env[arg.name]

\* The offset the write of one RAM block goes to.
WriteOffset(ram_info, env) ==
  SizeAdd(Word(ram_info.block_index), eval_arg(ram_info.write_addr, env))

\* One round of "Perform RAM writes"; a write outside the vector is undefined
\* and leaves the vector as it is.
RamWrite(st, ram_info, env) ==
  IF eval_arg(ram_info.write_enable, env) # {}
  THEN LET data == eval_arg(ram_info.data, env)
           offset == WriteOffset(ram_info, env)
       IN  IF InBounds(st.memory, offset)
           THEN [st EXCEPT !.memory = [@ EXCEPT ![Num(offset)] = data]]
           ELSE [st EXCEPT !.ub = TRUE]
  ELSE st

\* "Perform RAM writes", from entry i on of the order in which ram_info is
\* iterated.
RECURSIVE RamWrites(_, _, _, _, _)
RamWrites(st, ram_order, i, env, mm) ==
  IF i > Len(ram_order) THEN st
  ELSE RamWrites(RamWrite(st, mm.ram_info[ram_order[i]], env), ram_order, i + 1, env, mm)

\* Simulator::cycle as a function of the state before it, the values the
\* input manager supplies and the order and garbage that the build decides.
cycle(prog, dep_list, mm, ram_order, env, memory, supplied, garbage) ==
  LET env1 == SetInputs(env, prog.inputs, supplied)
      eq == IterateEquations(prog, dep_list, 1, [env |-> env1, ub |-> FALSE],
                             memory, mm, garbage)
      saved == SaveRegisters(memory, eq.env, mm)
      wr == RamWrites([memory |-> saved, ub |-> eq.ub], ram_order, 1, eq.env, mm)
  IN  [env |-> eq.env, memory |-> wr.memory, ub |-> wr.ub]

\* ------------------------------------------------------------- source files

\* The one-letter identifier c.
Id(c) == <<c>>

KwNot == <<"N", "O", "T">>
KwReg == <<"R", "E", "G">>
KwMux == <<"M", "U", "X">>
KwConcat == <<"C", "O", "N", "C", "A", "T">>
KwSelect == <<"S", "E", "L", "E", "C", "T">>
KwSlice == <<"S", "L", "I", "C", "E">>
KwRom == <<"R", "O", "M">>
KwRam == <<"R", "A", "M">>

\* The spellings of the six bitwise binary forms of the language.
BinarySpellings ==
  { <<"A", "N", "D">>, <<"O", "R">>, <<"X", "O", "R">>,
    <<"N", "A", "N", "D">>, <<"N", "O", "R">>, <<"X", "N", "O", "R">> }

\* A source file: its INPUT names, its VAR declarations, its equations, and the
\* memory chunks given on the command line.
File(name, inputs, vars, eqs, chunks) ==
  [name |-> name, inputs |-> inputs, vars |-> vars, eqs |-> eqs, chunks |-> chunks,
   tail |-> "\n"]

\* The same text without the line end after its last token.
Unterminated(f) == [f EXCEPT !.tail = NUL]

\* o = REG a.
IdentityRegister ==
  File("identity_register", {Id("a")},
       (Id("a") :> 1) @@ (Id("o") :> 1),
       << Equation(Id("o"), KwReg, <<>>, <<Var(Id("a"))>>) >>,
       <<>>)

\* Two registers of the same variable, which is defined after the first of them.
RegisterPair ==
  File("register_pair", {Id("a")},
       (Id("a") :> 1) @@ (Id("n") :> 1) @@ (Id("p") :> 1) @@ (Id("q") :> 1),
       << Equation(Id("p"), KwReg, <<>>, <<Var(Id("n"))>>),
          Equation(Id("n"), KwNot, <<>>, <<Var(Id("a"))>>),
          Equation(Id("q"), KwReg, <<>>, <<Var(Id("n"))>>) >>,
       <<>>)

\* A register beside a RAM whose write address is the result of a NOT.
RegisterAndRam ==
  File("register_and_ram", {Id("x"), Id("d")},
       (Id("x") :> 1) @@ (Id("d") :> 2) @@ (Id("o") :> 2) @@ (Id("w") :> 1)
         @@ (Id("r") :> 2),
       << Equation(Id("o"), KwReg, <<>>, <<Var(Id("d"))>>),
          Equation(Id("w"), KwNot, <<>>, <<Var(Id("x"))>>),
          Equation(Id("r"), KwRam, <<1, 2>>,
                   <<Var(Id("x")), Const(1, 1), Var(Id("w")), Const(2, 3)>>) >>,
       <<>>)

\* A MUX whose choice is an input, and one whose choice is the result of a NOT.
MuxFile ==
  File("mux", {Id("a"), Id("t"), Id("f")},
       (Id("a") :> 1) @@ (Id("t") :> 1) @@ (Id("f") :> 1) @@ (Id("c") :> 1)
         @@ (Id("m") :> 1) @@ (Id("k") :> 1),
       << Equation(Id("c"), KwNot, <<>>, <<Var(Id("a"))>>),
          Equation(Id("m"), KwMux, <<>>, <<Var(Id("c")), Var(Id("t")), Var(Id("f"))>>),
          Equation(Id("k"), KwMux, <<>>, <<Var(Id("a")), Var(Id("t")), Var(Id("f"))>>) >>,
       <<>>)

\* z = OP x y on one-bit buses, for a binary form spelled sp.
BinaryFile(sp) ==
  File("binary", {Id("x"), Id("y")},
       (Id("x") :> 1) @@ (Id("y") :> 1) @@ (Id("z") :> 1),
       << Equation(Id("z"), sp, <<>>, <<Var(Id("x")), Var(Id("y"))>>) >>,
       <<>>)

\* CONCAT of two inputs, and of the result of a NOT with an input.
ConcatFile ==
  File("concat", {Id("x"), Id("y")},
       (Id("x") :> 1) @@ (Id("y") :> 1) @@ (Id("a") :> 1) @@ (Id("u") :> 2)
         @@ (Id("v") :> 2),
       << Equation(Id("a"), KwNot, <<>>, <<Var(Id("x"))>>),
          Equation(Id("u"), KwConcat, <<>>, <<Var(Id("x")), Var(Id("y"))>>),
          Equation(Id("v"), KwConcat, <<>>, <<Var(Id("a")), Var(Id("y"))>>) >>,
       <<>>)

\* A ROM read at an input, one read at the result of a NOT, and a register.
RomFile ==
  File("rom", {Id("x")},
       (Id("x") :> 1) @@ (Id("n") :> 1) @@ (Id("d") :> 2) @@ (Id("e") :> 2)
         @@ (Id("o") :> 1),
       << Equation(Id("o"), KwReg, <<>>, <<Var(Id("x"))>>),
          Equation(Id("n"), KwNot, <<>>, <<Var(Id("x"))>>),
          Equation(Id("d"), KwRom, <<1, 2>>, <<Var(Id("x"))>>),
          Equation(Id("e"), KwRom, <<1, 2>>, <<Var(Id("n"))>>) >>,
       (Id("d") :> <<Word(1), Word(2)>>) @@ (Id("e") :> <<Word(3), Word(0)>>))

\* A RAM of two one-bit words driven by four inputs.
RamFile ==
  File("ram", {Id("a"), Id("e"), Id("w"), Id("d")},
       (Id("a") :> 1) @@ (Id("e") :> 1) @@ (Id("w") :> 1) @@ (Id("d") :> 1)
         @@ (Id("r") :> 1),
       << Equation(Id("r"), KwRam, <<1, 1>>,
                   <<Var(Id("a")), Var(Id("e")), Var(Id("w")), Var(Id("d"))>>) >>,
       <<>>)

\* A RAM whose read address and write enable are the result of a NOT, beside
\* a register.
RamNotFile ==
  File("ram_not", {Id("x"), Id("d")},
       (Id("x") :> 1) @@ (Id("d") :> 1) @@ (Id("n") :> 1) @@ (Id("o") :> 1)
         @@ (Id("r") :> 1),
       << Equation(Id("o"), KwReg, <<>>, <<Var(Id("d"))>>),
          Equation(Id("n"), KwNot, <<>>, <<Var(Id("x"))>>),
          Equation(Id("r"), KwRam, <<1, 1>>,
                   <<Var(Id("n")), Var(Id("n")), Var(Id("x")), Var(Id("d"))>>) >>,
       <<>>)

\* SELECT, SLICE and a plain copy of the result of a NOT.
SliceFile ==
  File("slice", {Id("x")},
       (Id("x") :> 2) @@ (Id("n") :> 2) @@ (Id("s") :> 1) @@ (Id("l") :> 2)
         @@ (Id("k") :> 2),
       << Equation(Id("n"), KwNot, <<>>, <<Var(Id("x"))>>),
          Equation(Id("s"), KwSelect, <<1>>, <<Var(Id("n"))>>),
          Equation(Id("l"), KwSlice, <<0, 1>>, <<Var(Id("n"))>>),
          Equation(Id("k"), Id("n"), <<>>, <<>>) >>,
       <<>>)

\* Two RAM blocks; the write address of the first is the result of a NOT.
TwoRams ==
  File("two_rams", {Id("x")},
       (Id("x") :> 1) @@ (Id("w") :> 1) @@ (Id("r") :> 1) @@ (Id("s") :> 1),
       << Equation(Id("w"), KwNot, <<>>, <<Var(Id("x"))>>),
          Equation(Id("r"), KwRam, <<1, 1>>,
                   <<Var(Id("x")), Const(1, 1), Var(Id("w")), Const(1, 1)>>),
          Equation(Id("s"), KwRam, <<1, 1>>,
                   <<Var(Id("x")), Const(1, 1), Const(1, 1), Const(1, 0)>>) >>,
       <<>>)

\* d = ROM 1 2 x and r = RAM 1 2 x 0b0 x 0b00 with the chunks given.
MemoryFile(name, chunks) ==
  File(name, {Id("x")},
       (Id("x") :> 1) @@ (Id("d") :> 2) @@ (Id("r") :> 2),
       << Equation(Id("d"), KwRom, <<1, 2>>, <<Var(Id("x"))>>),
          Equation(Id("r"), KwRam, <<1, 2>>,
                   <<Var(Id("x")), Const(1, 0), Var(Id("x")), Const(2, 0)>>) >>,
       chunks)

\* The ROM is given its two words and the RAM is given none, or its two words.
RomChunk == MemoryFile("rom_chunk", Id("d") :> <<Word(1), Word(2)>>)
RomAndRamChunks ==
  MemoryFile("rom_and_ram_chunks",
             (Id("d") :> <<Word(1), Word(2)>>) @@ (Id("r") :> <<Word(3), Word(1)>>))

\* The ROM is given no chunk.
UnboundRom == MemoryFile("unbound_rom", Id("r") :> <<Word(3), Word(1)>>)

\* The chunk of the ROM has one word, or three.
ShortChunk == MemoryFile("short_chunk", Id("d") :> <<Word(1)>>)
LongChunk == MemoryFile("long_chunk", Id("d") :> <<Word(1), Word(2), Word(3)>>)

\* Beside the chunk of the ROM, a chunk u that names no block.
StrayChunk ==
  MemoryFile("stray_chunk",
             (Id("d") :> <<Word(1), Word(2)>>) @@ (Id("u") :> <<Word(3), Word(3)>>))

\* The one-bit v is given a two-bit constant, the last token of the text.
WideConstant ==
  Unterminated(File("wide_constant", {Id("a")},
       (Id("a") :> 1) @@ (Id("o") :> 1) @@ (Id("v") :> 1),
       << Equation(Id("o"), KwReg, <<>>, <<Var(Id("a"))>>),
          Equation(Id("v"), <<>>, <<>>, <<Const(2, 3)>>) >>,
       <<>>))

\* The one-bit o is the register of the two-bit d.
WideRegister ==
  File("wide_register", {Id("d")},
       (Id("d") :> 2) @@ (Id("o") :> 1),
       << Equation(Id("o"), KwReg, <<>>, <<Var(Id("d"))>>) >>,
       <<>>)

\* Two equations for o.
TwoEquations ==
  File("two_equations", {Id("a")},
       (Id("a") :> 1) @@ (Id("o") :> 1),
       << Equation(Id("o"), KwNot, <<>>, <<Var(Id("a"))>>),
          Equation(Id("o"), Id("a"), <<>>, <<>>) >>,
       <<>>)

\* An equation for the input a.
InputEquation ==
  File("input_equation", {Id("a"), Id("b")},
       (Id("a") :> 1) @@ (Id("b") :> 1) @@ (Id("o") :> 1),
       << Equation(Id("a"), KwNot, <<>>, <<Var(Id("b"))>>),
          Equation(Id("o"), KwReg, <<>>, <<Var(Id("a"))>>) >>,
       <<>>)

\* No equation for the declared m, which is no input.
MissingEquation ==
  File("missing_equation", {Id("a")},
       (Id("a") :> 1) @@ (Id("o") :> 1) @@ (Id("m") :> 1),
       << Equation(Id("o"), KwReg, <<>>, <<Var(Id("a"))>>) >>,
       <<>>)

\* p uses n, whose equation comes after it in the source.
BackwardFile ==
  File("backward", {Id("a")},
       (Id("a") :> 1) @@ (Id("n") :> 1) @@ (Id("p") :> 1),
       << Equation(Id("p"), <<"O", "R">>, <<>>, <<Var(Id("n")), Var(Id("a"))>>),
          Equation(Id("n"), KwNot, <<>>, <<Var(Id("a"))>>) >>,
       <<>>)

\* The write side of the RAM r is w, whose equation comes after it.
BackwardRam ==
  File("backward_ram", {Id("x")},
       (Id("x") :> 1) @@ (Id("w") :> 1) @@ (Id("r") :> 1),
       << Equation(Id("r"), KwRam, <<1, 1>>,
                   <<Var(Id("x")), Var(Id("w")), Var(Id("w")), Var(Id("w"))>>),
          Equation(Id("w"), <<"x">>, <<>>, <<>>) >>,
       <<>>)

\* a and b need each other in the same cycle; o needs a.
CombinationalLoop ==
  File("combinational_loop", {Id("x")},
       (Id("x") :> 1) @@ (Id("o") :> 1) @@ (Id("a") :> 1) @@ (Id("b") :> 1),
       << Equation(Id("o"), KwNot, <<>>, <<Var(Id("a"))>>),
          Equation(Id("a"), KwNot, <<>>, <<Var(Id("b"))>>),
          Equation(Id("b"), KwNot, <<>>, <<Var(Id("a"))>>) >>,
       <<>>)

\* A loop through the argument of a REG.
RegisterLoop ==
  File("register_loop", {Id("x")},
       (Id("x") :> 1) @@ (Id("a") :> 1) @@ (Id("b") :> 1),
       << Equation(Id("a"), KwReg, <<>>, <<Var(Id("b"))>>),
          Equation(Id("b"), KwNot, <<>>, <<Var(Id("a"))>>) >>,
       <<>>)

\* A loop through the read address of a ROM.
RomLoop ==
  File("rom_loop", {Id("x")},
       (Id("x") :> 1) @@ (Id("d") :> 1) @@ (Id("n") :> 1),
       << Equation(Id("d"), KwRom, <<1, 1>>, <<Var(Id("n"))>>),
          Equation(Id("n"), <<"d">>, <<>>, <<>>) >>,
       Id("d") :> <<Word(1), Word(0)>>)

\* s = SELECT i x and s = SLICE b e x on the one-bit x.
SelectFile(i) ==
  File("select", {Id("x")},
       (Id("x") :> 1) @@ (Id("s") :> 1),
       << Equation(Id("s"), KwSelect, <<i>>, <<Var(Id("x"))>>) >>,
       <<>>)

SliceOfBit(b, e) ==
  File("slice_of_bit", {Id("x")},
       (Id("x") :> 1) @@ (Id("s") :> 1),
       << Equation(Id("s"), KwSlice, <<b, e>>, <<Var(Id("x"))>>) >>,
       <<>>)

\* The indices tried in SELECT and SLICE.
Indices == 0 .. 1

IndexFiles ==
  {SelectFile(i) : i \in Indices} \cup {SliceOfBit(b, e) : b \in Indices, e \in Indices}

Files ==
  { IdentityRegister, RegisterPair, RegisterAndRam, MuxFile, ConcatFile, RomFile,
    RamFile, RamNotFile, SliceFile, TwoRams, RomChunk, RomAndRamChunks, UnboundRom,
    ShortChunk, LongChunk, StrayChunk, WideConstant, WideRegister, TwoEquations,
    InputEquation, MissingEquation, BackwardFile, BackwardRam, CombinationalLoop,
    RegisterLoop, RomLoop }
  \cup { BinaryFile(sp) : sp \in BinarySpellings }
  \cup IndexFiles

\* ------------------------------------------------------------ the simulator

VARIABLES
  file,        \* the source file and memory chunks the process was started on
  status,      \* "running", "exit" (a report ended the process) or "crashed"
  prog,        \* the Program the parser returned
  dep_list,    \* Simulator::dep_list, the schedule
  mem_map,     \* Simulator::mem_map
  ram_order,   \* the order in which mem_map.ram_info is iterated
  env,         \* Simulator::env
  memory,      \* Simulator::memory
  cycle_id,    \* the number of calls of cycle() made
  supplied,    \* the values the input manager gave to the last cycle()
  env_before,  \* env when the last cycle() began
  memory_before, \* memory when the last cycle() began
  entry,       \* "main": started on the text; "Simulator": on the Program
  token,       \* Parser::m_token.spelling when a function of the parser is called
  next_char,   \* the character of the buffer after that token
  next_size,   \* the size of the spelling of the token that follows
  lexeme,      \* the identifier-shaped lexeme the lexer is called on
  parsed,      \* the function of the parser called, and what it returned
  stop_flag,   \* stop_flag of main, set by signal_handler
  cycle_amount_defined, \* cmd_parser.cycle_amount_defined()
  cycle_amount,         \* cmd_parser.get_cycle_amount()
  pc,          \* where main is: "test" of the loop, in "cycle", "print", "done"
  written,     \* the words ByteCodeWriter::finish returned, before any breakpoint
  registers,   \* ByteCode::registers of the bytecode Simulator: the bit widths
  words,       \* ByteCode::words of the bytecode Simulator
  position,    \* the position of the reader of the bytecode Simulator
  at_breakpoint,            \* Simulator::Detail::at_breakpoint
  breakpoints,              \* Simulator::Detail::breakpoints
  registers_value,          \* Simulator::Detail::registers_value
  previous_registers_value, \* Simulator::Detail::previous_registers_value
  vm_status,   \* "idle", "ok", or "crashed" (assertion failure, wild read)
  observed,    \* the last call made on the bytecode Simulator and its result
  program_registers, \* ProgramBuilder::m_program->registers
  instructions,      \* ProgramBuilder::m_program->instructions
  memories,          \* ProgramBuilder::m_program->memories
  built,             \* build() was called: m_program was moved out
  calls              \* the calls made on the ProgramBuilder and what they returned

simulator_vars == <<file, status, prog, dep_list, mem_map, ram_order, env, memory,
                    cycle_id, supplied, env_before, memory_before, entry>>

parser_vars == <<token, next_char, next_size, lexeme, parsed>>

loop_vars == <<stop_flag, cycle_amount_defined, cycle_amount, pc>>

debugger_vars == <<written, registers, words, position, at_breakpoint, breakpoints,
                   registers_value, previous_registers_value, vm_status, observed>>

builder_vars == <<program_registers, instructions, memories, built, calls>>

\* The variables that the simulator leaves alone.
other_vars == <<parser_vars, loop_vars, debugger_vars, builder_vars>>

vars == <<simulator_vars, other_vars>>

\* The sequences that list every element of S once.
Orders(S) ==
  {s \in [1 .. Cardinality(S) -> S] : \A i, j \in 1 .. Cardinality(S) : s[i] = s[j] => i = j}

\* The variables of the source in the order of their first equation.
RECURSIVE SourceOrderFrom(_, _, _)
SourceOrderFrom(eqs, i, out) ==
  IF i > Len(eqs) THEN out
  ELSE SourceOrderFrom(eqs, i + 1,
         IF eqs[i].target \in Range(out) THEN out ELSE Append(out, eqs[i].target))

SourceOrder(f) == SourceOrderFrom(f.eqs, 1, <<>>)

\* The names of the blocks of the memory mapper, and the chunks that name one.
BlockNames(mm) == DOMAIN mm.ram_info \cup DOMAIN mm.rom_info
KnownChunks(mm, chunks) == DOMAIN chunks \cap BlockNames(mm)

\* The block a chunk name refers to in the constructor of Simulator.
BlockOf(mm, chunk_name) ==
  IF chunk_name \in DOMAIN mm.ram_info THEN mm.ram_info[chunk_name]
  ELSE mm.rom_info[chunk_name]

\* Whether every chunk that names a block has the size of its block (report 51
\* exits otherwise).
ChunkSizesMatch(mm, chunks) ==
  \A c \in KnownChunks(mm, chunks) : BlockOf(mm, c).block_size = Len(chunks[c])

\* memory(mem_map.current_index, 0).
ZeroMemory(mm) == [a \in 0 .. (mm.current_index - 1) |-> {}]

\* The std::copy of every chunk that names a block, into memory.
CopyChunks(mem, mm, chunks) ==
  [a \in DOMAIN mem |->
     IF \E c \in KnownChunks(mm, chunks) :
          /\ BlockOf(mm, c).block_index <= a
          /\ a < BlockOf(mm, c).block_index + Len(chunks[c])
     THEN LET c == CHOOSE c \in KnownChunks(mm, chunks) :
                     /\ BlockOf(mm, c).block_index <= a
                     /\ a < BlockOf(mm, c).block_index + Len(chunks[c])
          IN  chunks[c][a - BlockOf(mm, c).block_index + 1]
     ELSE mem[a]]

\* The memory after construction when every chunk names a block.
LoadMemory(mm, chunks) == CopyChunks(ZeroMemory(mm), mm, chunks)

\* std::copy of a chunk to memory.begin() + k.
CopyAt(mem, chunk, k) ==
  [a \in DOMAIN mem |->
     IF k <= a /\ a < k + Len(chunk) THEN chunk[a - k + 1] ELSE mem[a]]

\* A chunk that names no block is copied with block_size and block_index not
\* initialised: when the size test passes, the copy goes to any place, inside
\* the vector or outside it (where it leaves the vector as it is).
StrayCopies(mem, chunk) ==
  {mem} \cup {CopyAt(mem, chunk, k) :
                   k \in 0 .. (Cardinality(DOMAIN mem) - Len(chunk))}

RECURSIVE StrayCopiesAll(_, _, _)
StrayCopiesAll(mems, chunks, names) ==
  IF names = {} THEN mems
  ELSE LET c == CHOOSE c \in names : TRUE IN
         StrayCopiesAll(UNION {StrayCopies(m, chunks[c]) : m \in mems}, chunks, names \ {c})

\* The memories that the loop over the chunks may leave: the chunks that name
\* no block are met before or after the others.
LoadedMemories(mm, chunks) ==
  LET stray == DOMAIN chunks \ BlockNames(mm) IN
    {CopyChunks(m, mm, chunks) : m \in StrayCopiesAll({ZeroMemory(mm)}, chunks, stray)}
    \cup StrayCopiesAll({LoadMemory(mm, chunks)}, chunks, stray)

\* The state of a process that a report of the parser or of the scheduler has
\* ended.
Exited(p) ==
  /\ status = "exit"
  /\ prog = p
  /\ dep_list = <<>>
  /\ mem_map = MemoryMapper(<<>>, <<>>)
  /\ ram_order = <<>>
  /\ env = <<>>
  /\ memory = <<>>

\* Scheduler::schedule on the Program p: it orders the equations of the
\* variables that are no input, ties broken by first appearance in the source.
Scheduled(p) ==
  schedule([v \in DOMAIN p.eqs \ p.inputs |-> p.eqs[v]], SourceOrder(file))

\* The constructor of Simulator on the Program p and the chunks of the file.
\* A ROM block left without a chunk is reported with print(), which returns.
Construct(p) ==
  LET s == Scheduled(p) IN
    IF s.err THEN Exited(p)
    ELSE /\ prog = p
         /\ dep_list = s.out
         /\ mem_map \in {MemoryMapper(p.eqs, o) : o \in Orders(DOMAIN p.eqs)}
         /\ ram_order \in Orders(DOMAIN mem_map.ram_info)
         /\ env = [v \in DOMAIN p.eqs |-> {}]
         /\ IF ~ChunkSizesMatch(mem_map, file.chunks)
            THEN status = "exit" /\ memory = ZeroMemory(mem_map)
            ELSE \/ status = "running" /\ memory \in LoadedMemories(mem_map, file.chunks)
                 \/ /\ DOMAIN file.chunks \ BlockNames(mem_map) # {}
                    /\ status \in {"exit", "crashed"}
                    /\ memory = ZeroMemory(mem_map)

\* No function of the parser is followed on its own.
ParserIdle ==
  /\ token = <<>>
  /\ lexeme = <<>>
  /\ next_char = NUL
  /\ next_size = 0
  /\ parsed = [fn |-> "none"]

\* No bytecode Simulator was constructed.
DebuggerIdle ==
  /\ written = <<>>
  /\ registers = <<>>
  /\ words = <<>>
  /\ position = 0
  /\ at_breakpoint = FALSE
  /\ breakpoints = <<>>
  /\ registers_value = <<>>
  /\ previous_registers_value = <<>>
  /\ vm_status = "idle"
  /\ observed = [fn |-> "none"]

\* No ProgramBuilder is in use.
BuilderIdle ==
  /\ program_registers = <<>>
  /\ instructions = <<>>
  /\ memories = <<>>
  /\ built = TRUE
  /\ calls = <<>>

\* No process was started on a file.
NoProcess ==
  /\ file = IdentityRegister
  /\ entry = "main"
  /\ status = "exit"
  /\ prog = [ok |-> FALSE]
  /\ dep_list = <<>>
  /\ mem_map = MemoryMapper(<<>>, <<>>)
  /\ ram_order = <<>>
  /\ env = <<>>
  /\ memory = <<>>
  /\ cycle_id = 0
  /\ supplied = <<>>
  /\ env_before = <<>>
  /\ memory_before = <<>>

\* The process up to the first cycle.  From main the Program is what
\* parse_program returns on the text of the file; a caller of the constructor
\* of Simulator hands it the Program itself (followed here for the Programs
\* that main does not reach, those whose text holds an integer token before
\* its end).
\* The loop of main followed without its test: cycle() is called up to
\* MaxCycles times and no signal arrives.
LoopIdle ==
  /\ stop_flag = FALSE
  /\ cycle_amount_defined = TRUE
  /\ cycle_amount = MaxCycles
  /\ pc = "test"

\* main up to its loop.
Started ==
  /\ ParserIdle
  /\ DebuggerIdle
  /\ BuilderIdle
  /\ file \in Files
  /\ entry \in {"main", "Simulator"}
  /\ cycle_id = 0
  /\ supplied = <<>>
  /\ env_before = <<>>
  /\ memory_before = <<>>
  /\ IF entry = "main"
     THEN LET p == parse_program(file) IN
            IF ~p.ok THEN Exited(p) ELSE Construct(p)
     ELSE /\ ~IntegersRead(file)
          /\ ProgramOf(file).ok
          /\ Construct(ProgramOf(file))

Init == Started /\ LoopIdle

\* The values an input manager may supply: one word per input, within its width.
InputValues(p) ==
  {f \in [p.inputs -> SUBSET Mask(2)] : \A v \in p.inputs : f[v] \subseteq Mask(p.width[v])}

\* What a read outside the vector may return.
Garbage == {{}, Bits}

\* One call of Simulator::cycle.
CycleCall ==
  /\ status = "running"
  /\ cycle_id < MaxCycles
  /\ \E in \in InputValues(prog), g \in Garbage :
       LET r == cycle(prog, dep_list, mem_map, ram_order, env, memory, in, g) IN
         /\ (~r.ub => g = {})
         /\ env' = r.env
         /\ memory' = r.memory
         /\ supplied' = in
  /\ env_before' = env
  /\ memory_before' = memory
  /\ cycle_id' = cycle_id + 1
  /\ UNCHANGED <<file, entry, status, prog, dep_list, mem_map, ram_order, parser_vars,
                  debugger_vars, builder_vars>>

\* One round of the loop of main.
Cycle == CycleCall /\ UNCHANGED loop_vars

\* A call of Simulator::cycle whose access outside the vector ends the process.
Crash ==
  /\ status = "running"
  /\ cycle_id < MaxCycles
  /\ \E in \in InputValues(prog) :
       /\ cycle(prog, dep_list, mem_map, ram_order, env, memory, in, {}).ub
       /\ supplied' = in
  /\ status' = "crashed"
  /\ env_before' = env
  /\ memory_before' = memory
  /\ cycle_id' = cycle_id + 1
  /\ UNCHANGED <<file, entry, prog, dep_list, mem_map, ram_order, env, memory, other_vars>>

Next == Cycle \/ Crash

Spec == Init /\ [][Next]_vars

\* ---------------------------------------------- the functions of the parser

\* Longest spelling of a token the model calls a function of the parser on.
MaxDigits == 3

\* The digits of those spellings, and the two-digit spellings at the largest
\* bus size.
LiteralDigits == {0, 1, 2}
BoundarySpellings == {<<6, 4>>, <<6, 5>>}

Spellings ==
  UNION {[1 .. n -> LiteralDigits] : n \in 1 .. MaxDigits} \cup BoundarySpellings

\* Identifier-shaped lexemes: keywords in upper case, in lower case and
\* capitalised, the two binary forms the keyword table lacks, and names.
Lexemes ==
  { <<"A", "N", "D">>, <<"a", "n", "d">>, <<"A", "n", "d">>,
    <<"I", "N", "P", "U", "T">>, <<"I", "n", "p", "u", "t">>,
    <<"R", "E", "G">>, <<"r", "e", "g">>,
    <<"I", "N">>, <<"i", "n">>,
    <<"N", "O", "R">>, <<"n", "o", "r">>,
    <<"a", "b">>, <<"x">>, <<"X">> }

\* A call of a function of the parser on the INTEGER token m_token.  The token
\* that follows is EOI, of empty spelling, when the buffer ends after m_token;
\* it is the comma or the colon when that is the next character; after a
\* blank or a line end it is any token.
ParserInit ==
  /\ \/ /\ token \in Spellings
        /\ lexeme = <<>>
        /\ next_char \in NextChars
        /\ next_size \in 0 .. MaxDigits
        /\ next_char = NUL => next_size = 0
        /\ next_char = "a" => next_size > 0
        /\ next_char \in {",", ":"} => next_size = 1
     \/ /\ lexeme \in Lexemes
        /\ token = <<>>
        /\ next_char = NUL
        /\ next_size = 0
  /\ parsed = [fn |-> "none"]
  /\ LoopIdle
  /\ DebuggerIdle
  /\ BuilderIdle
  /\ file = IdentityRegister
  /\ entry = "main"
  /\ status = "exit"
  /\ prog = [ok |-> FALSE]
  /\ dep_list = <<>>
  /\ mem_map = MemoryMapper(<<>>, <<>>)
  /\ ram_order = <<>>
  /\ env = <<>>
  /\ memory = <<>>
  /\ cycle_id = 0
  /\ supplied = <<>>
  /\ env_before = <<>>
  /\ memory_before = <<>>

\* Lexer::tokenize_identifier is called on the lexeme.
TokenizeIdentifier ==
  /\ parsed.fn = "none"
  /\ lexeme # <<>>
  /\ parsed' = [fn |-> "tokenize_identifier", r |-> tokenize_identifier(lexeme)]
  /\ UNCHANGED <<token, next_char, next_size, lexeme, simulator_vars, loop_vars,
                  debugger_vars, builder_vars>>

\* The bases parse_int is called with.
Bases == {2, 10}

\* parse_int is called on the token.
ParseInt ==
  /\ parsed.fn = "none"
  /\ token # <<>>
  /\ \E base \in Bases :
       parsed' = [fn |-> "parse_int", base |-> base, r |-> parse_int(token, base, next_char)]
  /\ UNCHANGED <<token, next_char, next_size, lexeme, simulator_vars, loop_vars,
                  debugger_vars, builder_vars>>

\* Parser::parse_bus_size is called.
ParseBusSize ==
  /\ parsed.fn = "none"
  /\ token # <<>>
  /\ parsed' = [fn |-> "parse_bus_size", r |-> parse_bus_size(token, next_char)]
  /\ UNCHANGED <<token, next_char, next_size, lexeme, simulator_vars, loop_vars,
                  debugger_vars, builder_vars>>

\* Parser::parse_binary_digits is called.
ParseBinaryDigits ==
  /\ parsed.fn = "none"
  /\ token # <<>>
  /\ parsed' = [fn |-> "parse_binary_digits",
                r |-> parse_binary_digits(token, next_char, next_size)]
  /\ UNCHANGED <<token, next_char, next_size, lexeme, simulator_vars, loop_vars,
                  debugger_vars, builder_vars>>

ParserNext == TokenizeIdentifier \/ ParseInt \/ ParseBusSize \/ ParseBinaryDigits

ParserSpec == ParserInit /\ [][ParserNext]_vars

\* ---------------------------------------------------------- the loop of main

\* The programs the loop is followed on; they have no ROM and no RAM.
LoopFiles == {IdentityRegister, RegisterPair}

\* main at the test of its loop, with or without a cycle amount on the
\* command line.
LoopInit ==
  /\ Started
  /\ file \in LoopFiles
  /\ entry = "main"
  /\ stop_flag = FALSE
  /\ cycle_amount_defined \in BOOLEAN
  /\ cycle_amount \in 0 .. MaxCycles
  /\ ~cycle_amount_defined => cycle_amount = 0
  /\ pc = "test"

\* signal_handler on SIGINT or SIGTERM.
SignalHandler ==
  /\ pc # "done"
  /\ ~stop_flag
  /\ stop_flag' = TRUE
  /\ UNCHANGED <<cycle_amount_defined, cycle_amount, pc, simulator_vars, parser_vars,
                  debugger_vars, builder_vars>>

\* The test of the loop: `cycle_id < get_cycle_amount()` when a cycle amount
\* was given, `!stop_flag` otherwise (followed up to MaxCycles cycles).
LoopTest ==
  /\ pc = "test"
  /\ status = "running"
  /\ cycle_amount_defined \/ stop_flag \/ cycle_id < MaxCycles
  /\ pc' = IF cycle_amount_defined
           THEN IF cycle_id < cycle_amount THEN "cycle" ELSE "print"
           ELSE IF ~stop_flag THEN "cycle" ELSE "print"
  /\ UNCHANGED <<stop_flag, cycle_amount_defined, cycle_amount, simulator_vars, parser_vars,
                  debugger_vars, builder_vars>>

\* s.cycle() in the body of the loop, and the increment of cycle_id.
LoopCycle ==
  /\ pc = "cycle"
  /\ CycleCall
  /\ pc' = "test"
  /\ UNCHANGED <<stop_flag, cycle_amount_defined, cycle_amount>>

\* s.print_outputs after the loop.
PrintOutputs ==
  /\ pc = "print"
  /\ pc' = "done"
  /\ UNCHANGED <<stop_flag, cycle_amount_defined, cycle_amount, simulator_vars, parser_vars,
                  debugger_vars, builder_vars>>

LoopNext == SignalHandler \/ LoopTest \/ LoopCycle \/ PrintOutputs

LoopSpec == LoopInit /\ [][LoopNext]_vars

\* ------------------------------------------------- the bytecode Simulator

\* The breakpoints set before execution starts.
MaxBreakpoints == 2

\* The width of int, the type in which get_register computes its mask.
IntBits == 32

\* The number of elements of a vector held as a function on 0 .. n - 1.
Size(v) == Cardinality(DOMAIN v)

\* A vector of the elements of the sequence s, indexed from 0.
Vector(s) == [i \in 0 .. (Len(s) - 1) |-> s[i + 1]]

\* An instruction of the bytecode: its opcode word with the operand words
\* that follow it.  words holds one element per instruction, so offsets and
\* positions count instructions; BREAK is written over the opcode word only.
Instruction(op, output, input, input_rhs, value) ==
  [op |-> op, output |-> output, input |-> input, input_lhs |-> input,
   input_rhs |-> input_rhs, value |-> value]

write_nop == Instruction("NOP", 0, 0, 0, {})
write_const(output, n) == Instruction("CONST", output, 0, 0, Word(n))
write_not(output, input) == Instruction("NOT", output, input, 0, {})
write_reg(output, input) == Instruction("REG", output, input, 0, {})
write_binary(op, output, lhs, rhs) == Instruction(op, output, lhs, rhs, {})

\* ByteCodeWriter::finish on three registers of one bit width.
ByteCode(bit_width, body) ==
  [registers |-> Vector(<<bit_width, bit_width, bit_width>>), words |-> Vector(body)]

NotBody == <<write_const(0, 1), write_not(1, 0), write_binary("NOR", 2, 0, 1)>>
NandBody == <<write_nop, write_binary("NAND", 1, 0, 0), write_reg(2, 1),
              write_binary("XOR", 0, 1, 2)>>
AndBody == <<write_const(0, 3), write_binary("AND", 1, 0, 0), write_binary("OR", 2, 1, 0)>>

\* The bytecodes the Simulator is followed on.
ByteCodes ==
  {ByteCode(1, NotBody), ByteCode(2, NandBody), ByteCode(30, AndBody),
   ByteCode(31, NotBody), ByteCode(32, NandBody), ByteCode(33, AndBody),
   ByteCode(64, NotBody)}

\* The members of Simulator::Detail, as one value.
Detail ==
  [registers |-> registers, words |-> words, position |-> position,
   at_breakpoint |-> at_breakpoint, breakpoints |-> breakpoints,
   registers_value |-> registers_value,
   previous_registers_value |-> previous_registers_value,
   crashed |-> vm_status = "crashed"]

\* A failed assert, or a wild read that ends the process.
Abort(d) == [d EXCEPT !.crashed = TRUE]

\* BreakPoint::activate on the k-th breakpoint of the list.
activate(d, k) ==
  LET offset == d.breakpoints[k].offset IN
    [d EXCEPT !.breakpoints[k].saved_word = d.words[offset].op,
              !.words[offset].op = "BREAK",
              !.breakpoints[k].is_active = TRUE]

\* A deactivate that leaves the BREAK word in place.
forget(d, k) == [d EXCEPT !.breakpoints[k].is_active = FALSE]

\* BreakPoint::deactivate on the k-th breakpoint of the list.
deactivate(d, k) ==
  LET offset == d.breakpoints[k].offset IN
    [d EXCEPT !.words[offset].op = d.breakpoints[k].saved_word,
              !.breakpoints[k].is_active = FALSE]

\* std::vector::erase of the k-th breakpoint.
erase(d, k) ==
  [d EXCEPT !.breakpoints =
     [i \in 1 .. (Len(@) - 1) |-> IF i < k THEN @[i] ELSE @[i + 1]]]

\* The reader is past the last word.
at_end(d) == d.position >= Size(d.words)

get_position(d) == d.position

handle_break(d) == [d EXCEPT !.at_breakpoint = TRUE]

handle_const(d, inst) == [d EXCEPT !.registers_value[inst.output] = inst.value]

handle_not(d, inst) ==
  [d EXCEPT !.registers_value[inst.output] = BitNot(d.registers_value[inst.input])]

handle_and(d, inst) ==
  [d EXCEPT !.registers_value[inst.output] =
     BitAnd(d.registers_value[inst.input_lhs], d.registers_value[inst.input_rhs])]

handle_or(d, inst) ==
  [d EXCEPT !.registers_value[inst.output] =
     BitOr(d.registers_value[inst.input_lhs], d.registers_value[inst.input_rhs])]

handle_nand(d, inst) ==
  [d EXCEPT !.registers_value[inst.output] =
     BitNot(BitAnd(d.registers_value[inst.input_lhs], d.registers_value[inst.input_rhs]))]

handle_nor(d, inst) ==
  [d EXCEPT !.registers_value[inst.output] =
     BitNot(BitOr(d.registers_value[inst.input_lhs], d.registers_value[inst.input_rhs]))]

handle_xor(d, inst) ==
  [d EXCEPT !.registers_value[inst.output] =
     BitXor(d.registers_value[inst.input_lhs], d.registers_value[inst.input_rhs])]

handle_reg(d, inst) ==
  [d EXCEPT !.registers_value[inst.output] = d.previous_registers_value[inst.input]]

\* The handler the reader calls for the instruction.
Dispatch(d, inst) ==
  CASE inst.op = "NOP" -> d
    [] inst.op = "CONST" -> handle_const(d, inst)
    [] inst.op = "NOT" -> handle_not(d, inst)
    [] inst.op = "AND" -> handle_and(d, inst)
    [] inst.op = "OR" -> handle_or(d, inst)
    [] inst.op = "NAND" -> handle_nand(d, inst)
    [] inst.op = "NOR" -> handle_nor(d, inst)
    [] inst.op = "XOR" -> handle_xor(d, inst)
    [] inst.op = "REG" -> handle_reg(d, inst)

\* What the word read past the end of the vector may turn out to be.
WildReads == {"crash", "NOP", "BREAK"}

\* ByteCodeReader::read_one: decodes the instruction at the position and calls
\* its handler.  On BREAK the position stays on the word, where
\* handle_breakpoint looks the breakpoint up; after any other instruction it
\* is on the next one.  Past the end of the words the read is out of bounds.
read_one(d, wild) ==
  IF d.crashed THEN d
  ELSE IF at_end(d)
  THEN CASE wild = "crash" -> Abort(d)
         [] wild = "BREAK" -> handle_break(d)
         [] OTHER -> [d EXCEPT !.position = @ + 1]
  ELSE LET inst == d.words[d.position] IN
         IF inst.op = "BREAK" THEN handle_break(d)
         ELSE [Dispatch(d, inst) EXCEPT !.position = @ + 1]

\* Simulator::find_breakpoint: the index in the list, 0 for end().
find_breakpoint(d, offset) ==
  LET found == {k \in 1 .. Len(d.breakpoints) : d.breakpoints[k].offset = offset} IN
    IF found = {} THEN 0 ELSE CHOOSE k \in found : \A j \in found : k <= j

RECURSIVE step(_, _)
RECURSIVE handle_breakpoint(_, _)

\* Simulator::handle_breakpoint.
handle_breakpoint(d, wild) ==
  IF d.crashed THEN d
  ELSE IF ~d.at_breakpoint \/ ~(get_position(d) < Size(d.words)) THEN Abort(d)
  ELSE LET breakpoint_it == find_breakpoint(d, get_position(d)) IN
    IF breakpoint_it = 0 THEN Abort(d)
    ELSE LET stepped == step(deactivate([d EXCEPT !.at_breakpoint = FALSE], breakpoint_it),
                             wild) IN
      IF stepped.crashed THEN stepped
      ELSE IF stepped.breakpoints[breakpoint_it].oneshot
           THEN erase(stepped, breakpoint_it)
           ELSE activate(stepped, breakpoint_it)

\* Simulator::step.
step(d, wild) ==
  read_one(IF d.at_breakpoint THEN handle_breakpoint(d, wild) ELSE d, wild)

RECURSIVE execute(_, _)
\* Simulator::execute.
execute(d, wild) ==
  IF d.crashed \/ d.at_breakpoint \/ at_end(d) THEN d
  ELSE execute(step(d, wild), wild)

\* What `(1 << bit_width) - 1` may be when the shift or the subtraction
\* overflows int: the shift count taken modulo the width of int, a shift that
\* gives 0 and so the mask -1, or the mask 0.
UndefinedMasks(bit_width) == {Mask(bit_width % IntBits), Bits, {}}

\* The mask of Simulator::get_register, computed in int and converted to RegValue.
RegisterMasks(bit_width) ==
  IF bit_width < IntBits - 1 THEN {Mask(bit_width)} ELSE UndefinedMasks(bit_width)

\* Simulator::get_register, with the mask the build produced.
get_register(d, reg, mask) == BitAnd(d.registers_value[reg], mask)

\* Simulator::set_register.
set_register(d, reg, value) == [d EXCEPT !.registers_value[reg] = value]

\* The breakpoint lists of up to MaxBreakpoints breakpoints, at distinct
\* offsets of the n instructions, before their activation.
BreakPointLists(n) ==
  {bps \in UNION {[1 .. k -> [offset : 0 .. (n - 1), saved_word : {"NOP"},
                              is_active : {FALSE}, oneshot : BOOLEAN]]
                  : k \in 0 .. MaxBreakpoints} :
     \A i, j \in DOMAIN bps : i < j => bps[i].offset < bps[j].offset}

RECURSIVE ActivateFrom(_, _)
\* Every breakpoint of the list from the k-th on is activated.
ActivateFrom(d, k) ==
  IF k > Len(d.breakpoints) THEN d ELSE ActivateFrom(activate(d, k), k + 1)

\* The values set_register is called with.
RegisterValues == {{}, Bits}

\* The members of Detail take the values of d.
Becomes(d) ==
  /\ words' = d.words
  /\ position' = d.position
  /\ at_breakpoint' = d.at_breakpoint
  /\ breakpoints' = d.breakpoints
  /\ registers_value' = d.registers_value
  /\ previous_registers_value' = d.previous_registers_value
  /\ vm_status' = IF d.crashed THEN "crashed" ELSE "ok"
  /\ UNCHANGED <<written, registers, simulator_vars, parser_vars, loop_vars, builder_vars>>

\* Simulator::Detail::Detail on a bytecode, and the breakpoints set on it.
DebuggerInit ==
  /\ \E bytecode \in ByteCodes : \E bps \in BreakPointLists(Size(bytecode.words)) :
       LET d == ActivateFrom([registers |-> bytecode.registers, words |-> bytecode.words,
                              position |-> 0, at_breakpoint |-> FALSE, breakpoints |-> bps,
                              registers_value |-> [r \in DOMAIN bytecode.registers |-> {}],
                              previous_registers_value |->
                                [r \in DOMAIN bytecode.registers |-> {}],
                              crashed |-> FALSE], 1) IN
         /\ written = bytecode.words
         /\ registers = bytecode.registers
         /\ words = d.words
         /\ breakpoints = d.breakpoints
         /\ registers_value = d.registers_value
         /\ previous_registers_value = d.previous_registers_value
  /\ position = 0
  /\ at_breakpoint = FALSE
  /\ vm_status = "ok"
  /\ observed = [fn |-> "none"]
  /\ ParserIdle
  /\ LoopIdle
  /\ BuilderIdle
  /\ NoProcess

\* A call of Simulator::step, at a breakpoint or before the end.
Step ==
  /\ vm_status = "ok"
  /\ at_breakpoint \/ ~at_end(Detail)
  /\ \E wild \in WildReads : Becomes(step(Detail, wild))
  /\ observed' = [fn |-> "step"]

\* A call of Simulator::execute.
Execute ==
  /\ vm_status = "ok"
  /\ \E wild \in WildReads : Becomes(execute(Detail, wild))
  /\ observed' = [fn |-> "execute"]

\* A call of Simulator::set_register.
SetRegister ==
  /\ vm_status = "ok"
  /\ \E reg \in DOMAIN registers : \E value \in RegisterValues :
       /\ Becomes(set_register(Detail, reg, value))
       /\ observed' = [fn |-> "set_register", reg |-> reg, value |-> value]

\* A call of Simulator::get_register.
GetRegister ==
  /\ vm_status = "ok"
  /\ \E reg \in DOMAIN registers : \E mask \in RegisterMasks(registers[reg]) :
       observed' = [fn |-> "get_register", reg |-> reg,
                    r |-> get_register(Detail, reg, mask)]
  /\ Becomes(Detail)

DebuggerNext == Step \/ Execute \/ SetRegister \/ GetRegister

DebuggerSpec == DebuggerInit /\ [][DebuggerNext]_vars

\* ------------------------------------------------------ the ProgramBuilder

\* The calls made on one ProgramBuilder before build().
MaxCalls == 3

\* The Program under construction, as one value.
Program ==
  [registers |-> program_registers, instructions |-> instructions, memories |-> memories]

\* ProgramBuilder::check_reg.
check_reg(p, reg) == reg < Len(p.registers)

\* ProgramBuilder::add_register: the Program, and the reg_t returned.
add_register(p, bus_size, name, flags) ==
  [program |-> [p EXCEPT !.registers =
                  Append(@, [name |-> name, bus_size |-> bus_size, flags |-> flags])],
   reg |-> Len(p.registers)]

\* m_program->instructions.push_back(inst).
push_back(p, inst) == [p EXCEPT !.instructions = Append(@, inst)]

add_const(p, output, value) ==
  push_back(p, [op |-> "CONST", output |-> output, value |-> value])

add_load(p, output, input) ==
  push_back(p, [op |-> "LOAD", output |-> output, input |-> input])

add_not(p, output, input) ==
  push_back(p, [op |-> "NOT", output |-> output, input |-> input])

add_reg(p, output, input) ==
  push_back(p, [op |-> "REG", output |-> output, input |-> input])

\* add_and, add_nand, add_or, add_nor, add_xor and add_xnor.
add_binary(p, op, output, lhs, rhs) ==
  push_back(p, [op |-> op, output |-> output, lhs |-> lhs, rhs |-> rhs])

add_concat(p, output, lhs, rhs) ==
  push_back(p, [op |-> "CONCAT", output |-> output, lhs |-> lhs, rhs |-> rhs,
                offset |-> p.registers[lhs + 1].bus_size])

add_mux(p, output, choice, first, second) ==
  push_back(p, [op |-> "MUX", output |-> output, choice |-> choice,
                first |-> first, second |-> second])

add_select(p, output, i, input) ==
  push_back(p, [op |-> "SELECT", output |-> output, i |-> i, input |-> input])

add_slice(p, output, start, end, input) ==
  push_back(p, [op |-> "SLICE", output |-> output, start |-> start, end |-> end,
                input |-> input])

\* memories.emplace_back() for the instruction just pushed; parent points to
\* it, and is held as its place in instructions.
emplace_memory(p, addr_size, word_size) ==
  [p EXCEPT !.memories = Append(@, [parent |-> Len(p.instructions),
                                    addr_size |-> addr_size,
                                    word_size |-> word_size])]

\* An add_rom that points every ROM to block 0.
add_rom_shared(p, output, addr_size, word_size, read_addr) ==
  emplace_memory(push_back(p, [op |-> "ROM", output |-> output, memory_block |-> 0,
                               read_addr |-> read_addr]),
                 addr_size, word_size)

add_rom(p, output, addr_size, word_size, read_addr) ==
  emplace_memory(push_back(p, [op |-> "ROM", output |-> output,
                               memory_block |-> Len(p.memories),
                               read_addr |-> read_addr]),
                 addr_size, word_size)

add_ram(p, output, addr_size, word_size, read_addr, write_enable, write_addr, write_data) ==
  emplace_memory(push_back(p, [op |-> "RAM", output |-> output,
                               memory_block |-> Len(p.memories),
                               read_addr |-> read_addr, write_enable |-> write_enable,
                               write_addr |-> write_addr, write_data |-> write_data]),
                 addr_size, word_size)

\* The bus sizes and the memory sizes the builder is called with.
BusSizes == {1, 2}

\* The registers that pass check_reg.
Registers == {reg \in 0 .. MaxCalls : check_reg(Program, reg)}

\* m_program takes the value p, and the call is logged.
Built(p, call) ==
  /\ ~built
  /\ Len(calls) < MaxCalls
  /\ program_registers' = p.registers
  /\ instructions' = p.instructions
  /\ memories' = p.memories
  /\ calls' = Append(calls, call)
  /\ UNCHANGED <<built, simulator_vars, parser_vars, loop_vars, debugger_vars>>

\* An instruction-adding call with nothing to log but its name.
Call(fn) == [fn |-> fn, ret |-> 0, addr_size |-> 0, word_size |-> 0]

\* A ProgramBuilder just constructed.
BuilderInit ==
  /\ program_registers = <<>>
  /\ instructions = <<>>
  /\ memories = <<>>
  /\ built = FALSE
  /\ calls = <<>>
  /\ ParserIdle
  /\ LoopIdle
  /\ DebuggerIdle
  /\ NoProcess

AddRegister ==
  /\ ~built
  /\ \E bus_size \in BusSizes :
       Built(add_register(Program, bus_size, "", 0).program,
             [Call("add_register") EXCEPT !.ret = add_register(Program, bus_size, "", 0).reg])

AddConst ==
  \E output \in Registers : Built(add_const(Program, output, Word(1)), Call("add_const"))

\* add_load, add_not or add_reg.
AddUnary ==
  \E output, input \in Registers :
    \/ Built(add_load(Program, output, input), Call("add_load"))
    \/ Built(add_not(Program, output, input), Call("add_not"))
    \/ Built(add_reg(Program, output, input), Call("add_reg"))

\* add_and, add_nand, add_or, add_nor, add_xor or add_xnor.
AddBinary ==
  \E op \in {"AND", "NAND", "OR", "NOR", "XOR", "XNOR"} : \E output, rhs \in Registers :
    Built(add_binary(Program, op, output, output, rhs), Call("add_binary"))

AddConcat ==
  \E output, lhs \in Registers :
    Built(add_concat(Program, output, lhs, output), Call("add_concat"))

AddMux ==
  \E output, choice \in Registers :
    Built(add_mux(Program, output, choice, output, choice), Call("add_mux"))

AddSelect ==
  \E output, input \in Registers :
    Built(add_select(Program, output, 0, input), Call("add_select"))

AddSlice ==
  \E output, input \in Registers :
    Built(add_slice(Program, output, 0, 1, input), Call("add_slice"))

AddRom ==
  \E output, read_addr \in Registers : \E addr_size, word_size \in BusSizes :
    Built(add_rom(Program, output, addr_size, word_size, read_addr),
          [Call("add_rom") EXCEPT !.addr_size = addr_size, !.word_size = word_size])

AddRam ==
  \E output, read_addr \in Registers : \E addr_size, word_size \in BusSizes :
    Built(add_ram(Program, output, addr_size, word_size, read_addr, output, read_addr, output),
          [Call("add_ram") EXCEPT !.addr_size = addr_size, !.word_size = word_size])

\* ProgramBuilder::build: m_program is moved out; the builder is not used again.
Build ==
  /\ ~built
  /\ built' = TRUE
  /\ UNCHANGED <<program_registers, instructions, memories, calls,
                 simulator_vars, parser_vars, loop_vars, debugger_vars>>

BuilderNext ==
  \/ AddRegister \/ AddConst \/ AddUnary \/ AddBinary \/ AddConcat \/ AddMux
  \/ AddSelect \/ AddSlice \/ AddRom \/ AddRam \/ Build

BuilderSpec == BuilderInit /\ [][BuilderNext]_vars

\* ------------------------------------------------------------------ claims

Running == status = "running"

\* The state after at least one completed call of cycle().
Cycled == status = "running" /\ cycle_id > 0

\* The authoritative value of variable v: the low width(v) bits of its slot.
Value(e, v) == Low(e[v], prog.width[v])

\* The authoritative value of an argument.
ArgValue(e, arg) == Low(visit_arg(arg, e), ArgBusSize(arg, prog.width))

EquationsOfKind(kind) == {v \in DOMAIN prog.eqs : prog.eqs[v].kind = kind}

\* C1: after every call of cycle(), the current value of every input variable
\* is the value the input source supplied for that cycle.
C1_InputsFollowSource ==
  Cycled => \A i \in prog.inputs : env[i] = supplied[i]

\* C2: for every equation v = REG u, v is 0 after the first cycle and, after
\* every later cycle, the value u had at the end of the cycle before.
C2_RegIsPreviousValue ==
  Cycled =>
    \A v \in EquationsOfKind("REG") :
      LET u == prog.eqs[v].v IN
        IF cycle_id = 1 THEN Value(env, v) = {}
        ELSE Value(env, v) = Value(env_before, u)

\* C3: every value held for a variable v is below 2^width(v).
C3_ValuesWithinWidth ==
  Running => \A v \in DOMAIN env : env[v] \subseteq Mask(prog.width[v])

\* The index in memory of word a of the block that starts at block_index.
WordIndex(block_index, a) == block_index + Num(a)

\* C4: a RAM equation reads the word its block held at the read address when
\* the cycle began, and a cycle whose write-enable bit is 1 leaves the written
\* word at the write address for the next cycle to read.
C4_RamReadBeforeWrite ==
  Cycled =>
    \A r \in EquationsOfKind("RAM") :
      LET e == prog.eqs[r]
          bi == mem_map.ram_info[r].block_index
          ra == ArgValue(env, e.read_address)
          we == ArgValue(env, e.write_enable)
          wa == ArgValue(env, e.write_address)
          wd == ArgValue(env, e.data)
      IN  /\ Low(env[r], e.word_size) = Low(memory_before[WordIndex(bi, ra)], e.word_size)
          /\ we = {0} => Low(memory[WordIndex(bi, wa)], e.word_size) = wd

\* C5: for every equation v = MUX c t f, v is t when bit 0 of c is 1 and f
\* when bit 0 of c is 0.
C5_MuxChoosesOnBitZero ==
  Cycled =>
    \A v \in EquationsOfKind("MUX") :
      LET e == prog.eqs[v] IN
        Value(env, v) = IF 0 \in visit_arg(e.choice, env)
                        THEN ArgValue(env, e.t) ELSE ArgValue(env, e.f)

\* The result the language gives to the binary form spelled sp on a and b,
\* on a bus of n bits.
BinaryResult(sp, a, b, n) ==
  CASE sp = <<"A", "N", "D">> -> BitAnd(a, b)
    [] sp = <<"O", "R">> -> BitOr(a, b)
    [] sp = <<"X", "O", "R">> -> BitXor(a, b)
    [] sp = <<"N", "A", "N", "D">> -> Low(BitNot(BitAnd(a, b)), n)
    [] sp = <<"N", "O", "R">> -> Low(BitNot(BitOr(a, b)), n)
    [] sp = <<"X", "N", "O", "R">> -> Low(BitNot(BitXor(a, b)), n)

\* C6: each of the six bitwise binary forms is lexed as a keyword, accepted by
\* the parser, and evaluated to its bitwise result masked to the bus width.
C6_SixBinaryForms ==
  \A sp \in BinarySpellings :
    file = BinaryFile(sp) =>
      /\ tokenize_identifier(sp) \notin {"IDENTIFIER", "THROW"}
      /\ status # "exit"
      /\ Cycled => env[Id("z")] = BinaryResult(sp, env[Id("x")], env[Id("y")], 1)

\* C7: for every equation v = CONCAT a b, v is a in the low width(a) bits and
\* b shifted left by width(a).
C7_ConcatLayout ==
  Cycled =>
    \A v \in EquationsOfKind("CONCAT") :
      LET e == prog.eqs[v] IN
        Value(env, v) = BitOr(ArgValue(env, e.beg),
                              ShiftLeft(ArgValue(env, e.last), ArgBusSize(e.beg, prog.width)))

\* The read address of a ROM or RAM equation as eval computes it.
ReadOffset(v) ==
  IF prog.eqs[v].kind = "ROM" THEN RomAddress(v, prog.eqs[v], env, mem_map)
  ELSE RamAddress(v, prog.eqs[v], env, mem_map)

\* C8: every ROM or RAM read takes the word at address cur[a] mod 2^as of the
\* equation's own block, and its index lies inside that block.
C8_ReadsStayInBlock ==
  Cycled =>
    \A d \in EquationsOfKind("ROM") \cup EquationsOfKind("RAM") :
      LET e == prog.eqs[d]
          b == BlockOf(mem_map, d)
          a == ArgValue(env, e.read_address)
      IN  /\ InBounds(memory, ReadOffset(d))
          /\ b.block_index <= Num(ReadOffset(d))
          /\ Num(ReadOffset(d)) < b.block_index + b.block_size
          /\ env[d] = memory_before[WordIndex(b.block_index, a)]

\* Whether index a of memory lies in block b.
InBlock(b, a) == b.block_index <= a /\ a < b.block_index + b.block_size

\* C9: the write phase changes, in a RAM block whose write-enable bit is 1,
\* only the word at the write address, which becomes the write data; it
\* changes no word of a RAM block whose write-enable bit is 0, no ROM word and
\* no slot of a saved register.
C9_WritePhaseFrame ==
  Cycled =>
    \A a \in DOMAIN memory :
      /\ \A u \in DOMAIN mem_map.reg_info :
           mem_map.reg_info[u] = a => memory[a] = env[u]
      /\ \A d \in DOMAIN mem_map.rom_info :
           InBlock(mem_map.rom_info[d], a) => memory[a] = memory_before[a]
      /\ \A r \in DOMAIN mem_map.ram_info :
           InBlock(mem_map.ram_info[r], a) =>
             LET e == prog.eqs[r]
                 we == ArgValue(env, e.write_enable)
                 wa == ArgValue(env, e.write_address)
             IN  IF we = {0} /\ a = WordIndex(mem_map.ram_info[r].block_index, wa)
                 THEN memory[a] = ArgValue(env, e.data)
                 ELSE memory[a] = memory_before[a]

\* The variables an expression reads from env.
Operands(e) ==
  CASE e.kind = "ARG" -> Range(ArgNames(<<e.arg>>))
    [] e.kind = "REG" -> {}
    [] e.kind = "NOT" -> Range(ArgNames(<<e.arg>>))
    [] e.kind = "BINOP" -> Range(ArgNames(<<e.lhs, e.rhs>>))
    [] e.kind = "MUX" -> Range(ArgNames(<<e.choice, e.t, e.f>>))
    [] e.kind = "CONCAT" -> Range(ArgNames(<<e.beg, e.last>>))
    [] e.kind = "SELECT" -> Range(ArgNames(<<e.arg>>))
    [] e.kind = "SLICE" -> Range(ArgNames(<<e.arg>>))
    [] e.kind = "ROM" -> Range(ArgNames(<<e.read_address>>))
    [] e.kind = "RAM" -> Range(ArgNames(<<e.read_address>>))

\* The words k * 2^w tried on a variable of width w.
HighWords(w) == {{w}, {w + 1}, {ValueBits - 1}, Bits \ Mask(w)}

\* env with the stored value of x replaced by x XOR h.
Disturbed(x, h) == [env EXCEPT ![x] = BitXor(@, h)]

\* The memory words masked to the width of what they hold.
MaskedMemory(m) ==
  [a \in DOMAIN m |->
     IF \E u \in DOMAIN mem_map.reg_info : mem_map.reg_info[u] = a
     THEN Low(m[a], prog.width[CHOOSE u \in DOMAIN mem_map.reg_info : mem_map.reg_info[u] = a])
     ELSE LET d == CHOOSE d \in DOMAIN prog.eqs :
                     /\ prog.eqs[d].kind \in {"ROM", "RAM"}
                     /\ InBlock(BlockOf(mem_map, d), a)
          IN  Low(m[a], prog.eqs[d].word_size)]

\* The memory that "Save Registers" and "Perform RAM writes" leave when the
\* cycle's equations ended with the values e.
WritePhase(e) ==
  RamWrites([memory |-> SaveRegisters(memory_before, e, mem_map), ub |-> FALSE],
            ram_order, 1, e, mem_map).memory

\* C10: replacing the stored value of an operand x of width w by
\* x XOR (k * 2^w) changes neither the value any equation computes from it nor
\* the memory the write phase leaves.
C10_HighBitsDoNotMatter ==
  Cycled =>
    \A x \in DOMAIN env : \A h \in HighWords(prog.width[x]) :
      /\ \A v \in DOMAIN prog.eqs :
           x \in Operands(prog.eqs[v]) =>
             Low(eval(v, prog.eqs[v], Disturbed(x, h), memory_before, mem_map, prog.width, {}),
                 prog.width[v])
               = Low(eval(v, prog.eqs[v], env, memory_before, mem_map, prog.width, {}),
                     prog.width[v])
      /\ MaskedMemory(WritePhase(Disturbed(x, h))) = MaskedMemory(WritePhase(env))

\* What one call of cycle() from the state before the last one leaves when the
\* write phase visits the RAM blocks in the order o and reads outside the
\* vector return g.
CycleInOrder(o, g) ==
  LET r == cycle(prog, dep_list, mem_map, o, env_before, memory_before, supplied, g)
  IN  [env |-> r.env, memory |-> r.memory]

\* C11: from the same values, memory and inputs, a cycle leaves the same
\* variable values and the same memory in whichever order the write phase
\* visits the RAM blocks.
C11_WriteOrderIndependent ==
  Cycled =>
    \A g \in Garbage : \A o \in Orders(DOMAIN mem_map.ram_info) :
      CycleInOrder(o, g) = CycleInOrder(ram_order, g)

\* The ROM blocks of the program that no chunk of the file names.
UnboundRoms == DOMAIN mem_map.rom_info \ DOMAIN file.chunks

\* C12: when some ROM block has no supplied contents the construction ends in
\* an error and no cycle() is executed; the loop runs only when every ROM block
\* is initialised.
C12_UnboundRomStops ==
  /\ UnboundRoms # {} => status = "exit" /\ cycle_id = 0
  /\ cycle_id > 0 => UnboundRoms = {}

\* The state the constructor of Simulator leaves to the first cycle.
Constructed == status = "running" /\ cycle_id = 0

\* The addresses of the blocks that a chunk of the file names.
ChunkedAddresses ==
  {a \in DOMAIN memory :
     \E c \in KnownChunks(mem_map, file.chunks) : InBlock(BlockOf(mem_map, c), a)}

\* C13: a chunk naming a block of another length stops the simulator before any
\* cycle; otherwise the construction leaves element a of the chunk in word a of
\* the block, and leaves 0 in every word outside the blocks that have a chunk.
C13_ChunksLoaded ==
  /\ ~ChunkSizesMatch(mem_map, file.chunks) => status = "exit" /\ cycle_id = 0
  /\ Constructed =>
       /\ \A c \in KnownChunks(mem_map, file.chunks) :
            \A a \in 0 .. BlockOf(mem_map, c).block_size - 1 :
              memory[BlockOf(mem_map, c).block_index + a] = file.chunks[c][a + 1]
       /\ \A a \in DOMAIN memory \ ChunkedAddresses : memory[a] = {}

\* C14: in a Program that parse_program returned, the width of every equation's
\* expression is the declared width of its target.
C14_WidthsAgree ==
  (entry = "main" /\ prog.ok) =>
    \A v \in DOMAIN prog.eqs : ExprBusSize(prog.eqs[v], prog.width) = prog.width[v]

\* The targets that the file gives more than one equation.
TargetsAssignedTwice ==
  {file.eqs[i].target : i \in {i \in DOMAIN file.eqs :
                                 \E j \in DOMAIN file.eqs : j # i /\ file.eqs[j].target = file.eqs[i].target}}

\* C15: a file with two equations for the same target is rejected; no Program
\* results from it.
C15_UniqueEquation ==
  (entry = "main" /\ TargetsAssignedTwice # {}) => (status = "exit" /\ ~prog.ok)

\* C16: in a Program that parse_program returned, no input variable has an
\* equation.
C16_InputsHaveNoEquation ==
  (entry = "main" /\ prog.ok) => prog.inputs \cap DOMAIN prog.eqs = {}

\* The variables the file declares that are no input and get no equation.
WithoutEquation(f) ==
  {v \in DOMAIN f.vars \ f.inputs : \A i \in DOMAIN f.eqs : f.eqs[i].target # v}

\* C17: parse_program returns a Program only if every declared variable that
\* is not an input has an equation; a file that leaves one without equation
\* gives an error and no Program.
C17_EveryVariableDefined ==
  /\ prog.ok => \A v \in DOMAIN prog.width \ prog.inputs : v \in DOMAIN prog.eqs
  /\ WithoutEquation(file) # {} => (status = "exit" /\ ~prog.ok)

\* The file that leaves a declared variable without equation was rejected.
C17_MissingEquationRejected ==
  /\ file = MissingEquation
  /\ WithoutEquation(file) = {Id("m")}
  /\ status = "exit"
  /\ ~prog.ok

\* C20: SELECT i a is accepted exactly when i < width(a), and SLICE s e a
\* exactly when s <= e < width(a); here a is one bit wide.
C20_IndexRanges ==
  entry = "main" =>
    /\ \A i \in Indices : file = SelectFile(i) => (prog.ok <=> i < 1)
    /\ \A b \in Indices, e \in Indices :
         file = SliceOfBit(b, e) => (prog.ok <=> (b <= e /\ e < 1))

\* C18: a bus size that parse_bus_size accepts lies between 1 and 64.
C18_BusSizeInRange ==
  (parsed.fn = "parse_bus_size" /\ parsed.r.ok) =>
    (1 <= parsed.r.value /\ parsed.r.value <= max_bus_size)

\* Whether a spelling is made of binary digits only.
BinaryDigits(spelling) == \A i \in DOMAIN spelling : spelling[i] \in {0, 1}

\* C19: a literal of binary digits gives a Constant as wide as the literal has
\* digits, whose value is its reading in base 2, whatever follows it.
C19_BareBinaryConstant ==
  (parsed.fn = "parse_binary_digits" /\ BinaryDigits(token)) =>
    /\ parsed.r.ok
    /\ parsed.r.size = Len(token)
    /\ parsed.r.value = DigitsValue(token, 2)

\* C21: a lexeme whose upper-cased spelling is a keyword is tokenized as that
\* keyword, without failure; any other lexeme is tokenized as IDENTIFIER.
C21_KeywordsAnyCase ==
  parsed.fn = "tokenize_identifier" =>
    parsed.r = IF KeywordContains(str_toupper(lexeme))
               THEN KeywordAt(str_toupper(lexeme))
               ELSE "IDENTIFIER"

\* Whether every digit of a spelling is a digit of the base.
DigitsOfBase(spelling, base) == \A i \in DOMAIN spelling : spelling[i] < base

\* C26: parse_int returns the value of a token made of digits of the base,
\* with no error, whatever character follows the token in the buffer.
C26_ParseIntAnyFollower ==
  (parsed.fn = "parse_int" /\ DigitsOfBase(token, parsed.base)) =>
    (parsed.r.ok /\ parsed.r.value = DigitsValue(token, parsed.base))

\* The names of the variables among a set of arguments.
VariablesAmong(args) == {a.name : a \in {a \in args : a.k = "VARIABLE"}}

\* The variables an expression uses as ordinary arguments: all of them but the
\* argument of REG and the read address of ROM and RAM; the write enable,
\* write address and write data of a RAM are among them.
CombinationalOperands(e) ==
  IF e.kind \in {"ARG", "NOT", "SELECT", "SLICE"} THEN VariablesAmong({e.arg})
  ELSE IF e.kind = "BINOP" THEN VariablesAmong({e.lhs, e.rhs})
  ELSE IF e.kind = "MUX" THEN VariablesAmong({e.choice, e.t, e.f})
  ELSE IF e.kind = "CONCAT" THEN VariablesAmong({e.beg, e.last})
  ELSE IF e.kind = "RAM" THEN VariablesAmong({e.write_enable, e.write_address, e.data})
  ELSE {}

\* The place of v in the schedule.
Position(v) == CHOOSE i \in 1 .. Len(dep_list) : dep_list[i] = v

NonInputs == DOMAIN prog.width \ prog.inputs

\* C22: the schedule is a permutation of the non-input variables in which
\* every ordinary argument of an equation comes before its target, and after a
\* cycle every scheduled equation that reads no memory has the value of its
\* expression on the values of this cycle.
C22_ScheduleOrder ==
  /\ Running =>
       /\ Range(dep_list) = NonInputs
       /\ Len(dep_list) = Cardinality(NonInputs)
       /\ \A v \in NonInputs : \A u \in CombinationalOperands(prog.eqs[v]) \cap NonInputs :
            Position(u) < Position(v)
  /\ Cycled =>
       \A v \in Range(dep_list) :
         prog.eqs[v].kind \notin {"REG", "ROM", "RAM"} =>
           env[v] = eval(v, prog.eqs[v], env, memory_before, mem_map, prog.width, {})

\* A cycle has run on a program whose source gives a consumer, and the write
\* side of a RAM, before the equation of what they use.
C22_BackwardScheduled ==
  /\ Cycled
  /\ file \in {BackwardFile, BackwardRam}
  /\ \E v \in NonInputs : \E u \in CombinationalOperands(prog.eqs[v]) \cap NonInputs :
       /\ Position(u) < Position(v)
       /\ \E i, j \in 1 .. Len(file.eqs) :
            i < j /\ file.eqs[i].target = v /\ file.eqs[j].target = u

\* The non-input variables that v reaches through one or more ordinary
\* arguments, in a program p.
RECURSIVE ReachedFrom(_, _)
ReachedFrom(p, S) ==
  LET T == S \cup UNION {CombinationalOperands(p.eqs[u]) \cap (DOMAIN p.eqs \ p.inputs) : u \in S}
  IN  IF T = S THEN S ELSE ReachedFrom(p, T)

Reaches(p, v) ==
  ReachedFrom(p, CombinationalOperands(p.eqs[v]) \cap (DOMAIN p.eqs \ p.inputs))

\* The variables of a program that lie on a cycle of ordinary arguments.
OnCombinationalCycle(p) == {v \in DOMAIN p.eqs \ p.inputs : v \in Reaches(p, v)}

\* Whether the variables of S are on one cycle of ordinary arguments: each of
\* them uses one of them, and each reaches all of them.
IsCycle(p, S) ==
  /\ S # {}
  /\ \A v \in S : Cardinality(CombinationalOperands(p.eqs[v]) \cap S) >= 1
  /\ \A v \in S : S \subseteq Reaches(p, v)

\* C23: a program with a cycle of ordinary arguments is rejected by the
\* scheduler, whose error names the variables of a cycle; a program without
\* one is scheduled, loops through a REG argument or a read address included.
C23_CombinationalCycle ==
  prog.ok =>
    IF OnCombinationalCycle(prog) # {}
    THEN /\ status = "exit"
         /\ Scheduled(prog).err
         /\ IsCycle(prog, Scheduled(prog).cycle)
         /\ Scheduled(prog).cycle \subseteq OnCombinationalCycle(prog)
    ELSE /\ ~Scheduled(prog).err
         /\ (status = "exit" => ~ChunkSizesMatch(mem_map, file.chunks)
                                   \/ DOMAIN file.chunks \ BlockNames(mem_map) # {})

\* The program a = NOT b, b = NOT a was rejected with an error naming a and b.
C23_LoopRejected ==
  /\ file = CombinationalLoop
  /\ prog.ok
  /\ status = "exit"
  /\ Scheduled(prog).cycle = {Id("a"), Id("b")}

\* C24: once the stop flag is set no further cycle is started, the cycle in
\* progress runs to its end, and the loop then ends and prints the outputs;
\* with a cycle amount and without one.
C24_StopAtBoundary ==
  [][/\ (stop_flag /\ pc = "test") => pc' = "print"
     /\ pc = "cycle" => (pc' = "test" /\ cycle_id' = cycle_id + 1)
     /\ pc = "print" => pc' = "done"]_<<pc, cycle_id>>

\* The chunks of the file that name no ROM or RAM block of the program.
UnusedChunks == DOMAIN file.chunks \ BlockNames(mem_map)

\* C29: a chunk that names no block only gives a warning: the construction
\* goes on, the chunk changes no word of memory and raises no size error.
C29_UnusedChunkIgnored ==
  (prog.ok /\ ~Scheduled(prog).err /\ cycle_id = 0 /\ UnusedChunks # {}
     /\ ChunkSizesMatch(mem_map, file.chunks)) =>
    /\ status = "running"
    /\ memory = LoadMemory(mem_map, file.chunks)

\* A step() is made from a stop at a breakpoint of the list.
StepFromBreakpoint ==
  /\ vm_status = "ok"
  /\ at_breakpoint
  /\ position \in DOMAIN written
  /\ observed'.fn = "step"

\* C27: a step() made while stopped at a breakpoint executes exactly one
\* instruction, the one hidden under the BREAK word, and the position is
\* then on the next instruction, as after a step() with no breakpoint there.
C27_SingleStep ==
  [][StepFromBreakpoint =>
       /\ vm_status' = "ok"
       /\ position' = position + 1
       /\ registers_value' = Dispatch(Detail, written[position]).registers_value]_vars

\* The breakpoint of the list at the offset, 0 when there is none.
BreakpointAt(offset) == find_breakpoint(Detail, offset)

\* The instruction at the offset is the written one, under an active
\* breakpoint that saved its opcode word or in the words themselves.
WordKept(offset) ==
  IF BreakpointAt(offset) # 0
  THEN /\ breakpoints[BreakpointAt(offset)].is_active
       /\ breakpoints[BreakpointAt(offset)].saved_word = written[offset].op
       /\ words[offset] = [written[offset] EXCEPT !.op = "BREAK"]
  ELSE words[offset] = written[offset]

\* C28: breakpoints never lose an instruction word: between two calls every
\* word is the written one or the BREAK of an active breakpoint that saved
\* it; and a step over a breakpoint leaves a breakpoint that is not oneshot
\* in the list, active, and removes a oneshot one with the word restored.
C28_WordsKept ==
  /\ [](DOMAIN words = DOMAIN written /\ \A offset \in DOMAIN words : WordKept(offset))
  /\ [][StepFromBreakpoint =>
          /\ BreakpointAt(position) # 0
          /\ IF breakpoints[BreakpointAt(position)].oneshot
             THEN /\ Len(breakpoints') = Len(breakpoints) - 1
                  /\ \A k \in DOMAIN breakpoints' : breakpoints'[k].offset # position
                  /\ words'[position] = written[position]
             ELSE /\ breakpoints' = breakpoints
                  /\ words'[position].op = "BREAK"]_vars

\* A step went over a breakpoint that is not oneshot: it is in the list,
\* active, and BREAK is at its offset.
C28_SteppedOver ==
  /\ vm_status = "ok"
  /\ observed.fn = "step"
  /\ \E k \in DOMAIN breakpoints :
       /\ breakpoints[k].offset < position
       /\ ~breakpoints[k].oneshot
       /\ breakpoints[k].is_active
       /\ words[breakpoints[k].offset].op = "BREAK"

\* C30: get_register returns the low bit_width bits of the stored value, for
\* every bit width from 1 to 64, after NOT, NAND, NOR and set_register.
C30_RegisterMasked ==
  observed.fn = "get_register" =>
    observed.r = Low(registers_value[observed.reg], registers[observed.reg])

\* The calls of add_register, and the calls that add an instruction.
RegisterCalls == SelectSeq(calls, LAMBDA c : c.fn = "add_register")
InstructionCalls == SelectSeq(calls, LAMBDA c : c.fn # "add_register")

\* The places in instructions of the ROM and RAM instructions.
MemoryInstructions == {i \in DOMAIN instructions : instructions[i].op \in {"ROM", "RAM"}}

\* C25: the k-th add_register returned k - 1 and registers counts the calls;
\* every add_* call added one instruction; there are as many memory blocks as
\* ROM and RAM instructions, and the memory_block of each is a block of its
\* own, whose parent it is, with the sizes passed to add_rom or add_ram.
C25_BuilderBookkeeping ==
  /\ Len(program_registers) = Len(RegisterCalls)
  /\ \A k \in DOMAIN RegisterCalls : RegisterCalls[k].ret = k - 1
  /\ Len(instructions) = Len(InstructionCalls)
  /\ Len(memories) = Cardinality(MemoryInstructions)
  /\ \A i \in MemoryInstructions :
       /\ instructions[i].memory_block \in 0 .. (Len(memories) - 1)
       /\ memories[instructions[i].memory_block + 1].parent = i
       /\ memories[instructions[i].memory_block + 1].addr_size = InstructionCalls[i].addr_size
       /\ memories[instructions[i].memory_block + 1].word_size = InstructionCalls[i].word_size
       /\ \A j \in MemoryInstructions :
            i # j => instructions[i].memory_block # instructions[j].memory_block

\* A ROM and a RAM were added after a register: two blocks.
C25_TwoBlocks ==
  /\ Len(program_registers) = 1
  /\ Len(memories) = 2
  /\ {instructions[i].op : i \in DOMAIN instructions} = {"ROM", "RAM"}

====
